---- MODULE Spec2Model ----
(***************************************************************************)
(* Model of the MXNet -> ONNX per-operator translation rules of            *)
(* python/mxnet/contrib/onnx/mx2onnx/_op_translations.py.                  *)
(*                                                                         *)
(* Representation.                                                         *)
(*  - A name (node name, tensor name) is a sequence of string tokens, so   *)
(*    that the code's  name + "_tmp"  is  name \o <<"_tmp">>  and          *)
(*    name.startswith(p) is a test on the first token.                     *)
(*  - An attribute string that the code takes apart character by character *)
(*    (dimension tuples, shape lists) is a sequence of one-character       *)
(*    strings; enumeration-like attribute strings are TLA+ strings and     *)
(*    plain numeric attribute strings are written as the number they       *)
(*    denote.                                                              *)
(*  - A tensor value is a sequence of rationals <<n, d>>; d = 0 encodes    *)
(*    the IEEE specials (+inf, -inf, nan) that numpy produces on division  *)
(*    by zero.                                                             *)
(*  - A rule returns [items, err]: the value infos / nodes it built, in    *)
(*    evaluation order, and the exception it raised ("" if none).  An item *)
(*    of kind "init" stands for a create_* helper call: it appends to the  *)
(*    shared initializer list when evaluated and leaves a value info in    *)
(*    the returned list.                                                   *)
(***************************************************************************)
EXTENDS Integers, Sequences, FiniteSets, TLC

VARIABLES
    initializer,    \* kwargs["initializer"]: the tensors appended so far
    proc_nodes,     \* kwargs["proc_nodes"]: every item returned by the rules so far
    index_lookup,   \* kwargs["index_lookup"]: source node -> position in proc_nodes
    idx,            \* kwargs["idx"]: position of the source node being lowered
    opset_version,  \* kwargs["opset_version"]
    status,         \* "ok", or "error" once a rule has raised
    last,           \* the last rule invocation: its node, its result
    attrs_in,       \* the attribute dictionary handed to parse_helper
    parsed,         \* what parse_helper did with it
    feeds,          \* the tensors fed to the graph inputs when the emitted nodes are run
    fetched         \* what running the emitted nodes on the feeds gave

vars == <<initializer, proc_nodes, index_lookup, idx, opset_version, status, last,
          attrs_in, parsed, feeds, fetched>>

-----------------------------------------------------------------------------
(* Bounds of the model *)

\* number of source nodes lowered in one pass
MaxNodes == 2

\* largest numerator / denominator magnitude of a folded constant kept in the model
ValCap == 10000

\* opset versions the pass is run under (thresholds in the code: 10, 11, 12)
Opsets == {9, 10, 11, 12}

\* weight values and scalar attribute values
Consts == {0, 5}
Scalars == {0, 2, 10}

-----------------------------------------------------------------------------
(* Generic helpers *)

Abs(x) == IF x < 0 THEN -x ELSE x

Sign(x) == IF x > 0 THEN 1 ELSE IF x < 0 THEN -1 ELSE 0

RECURSIVE GCD(_, _)
GCD(a, b) == IF b = 0 THEN a ELSE GCD(b, a % b)

Last(s) == s[Len(s)]

Range(s) == {s[i] : i \in DOMAIN s}

\* str(i) for the small integers the rules put into names
Str(i) ==
    CASE i = 0 -> "0" [] i = 1 -> "1" [] i = 2 -> "2" [] i = 3 -> "3"
      [] i = 4 -> "4" [] i = 5 -> "5" [] i = 6 -> "6" [] i = 7 -> "7"
      [] i = 8 -> "8" [] i = 9 -> "9" [] i = 10 -> "10"
      [] i = -1 -> "-1" [] i = -2 -> "-2" [] i = -3 -> "-3"

\* dict.get(key, default)
Get(attrs, key, default) == IF key \in DOMAIN attrs THEN attrs[key] ELSE default

Has(attrs, key) == key \in DOMAIN attrs

-----------------------------------------------------------------------------
(* float arithmetic of numpy on rationals with IEEE specials *)

Inf == <<1, 0>>
NInf == <<-1, 0>>
NaN == <<0, 0>>

Norm(n, d) ==
    IF d = 0 THEN <<Sign(n), 0>>
    ELSE LET s == IF d < 0 THEN -1 ELSE 1
             g == GCD(Abs(n), Abs(d))
         IN  <<(s * n) \div g, (s * d) \div g>>

R(i) == <<i, 1>>

IsFinite(x) == x[2] # 0

VAdd(x, y) ==
    IF IsFinite(x) /\ IsFinite(y) THEN Norm(x[1] * y[2] + y[1] * x[2], x[2] * y[2])
    ELSE IF x = NaN \/ y = NaN THEN NaN
    ELSE IF ~IsFinite(x) /\ ~IsFinite(y) THEN (IF x = y THEN x ELSE NaN)
    ELSE IF IsFinite(x) THEN y ELSE x

VNeg(x) == <<-x[1], x[2]>>

VSub(x, y) == VAdd(x, VNeg(y))

VMul(x, y) ==
    IF x = NaN \/ y = NaN THEN NaN
    ELSE Norm(x[1] * y[1], x[2] * y[2])

\* 1/y; numpy gives +inf for 1/0
VInv(y) ==
    IF y = NaN THEN NaN
    ELSE IF ~IsFinite(y) THEN R(0)
    ELSE IF y[1] = 0 THEN Inf
    ELSE Norm(y[2], y[1])

VDiv(x, y) ==
    IF x = NaN \/ y = NaN THEN NaN
    ELSE IF ~IsFinite(x) /\ ~IsFinite(y) THEN NaN
    ELSE IF IsFinite(y) /\ y[1] = 0 THEN <<Sign(x[1]), 0>>
    ELSE VMul(x, VInv(y))

\* x ** e for a non-negative integer exponent.  Once an intermediate power
\* leaves the modelled range it is kept as it is (and stays out of range), so
\* that the arithmetic of the model never exceeds the range of TLC's integers.
RECURSIVE VPow(_, _)
VPow(x, e) ==
    IF e = 0 THEN R(1)
    ELSE LET r == VPow(x, e - 1)
         IN  IF Abs(r[1]) > ValCap \/ r[2] > ValCap THEN r ELSE VMul(r, x)

InRange(x) == Abs(x[1]) <= ValCap /\ x[2] <= ValCap

\* a tensor of integers as a value list
T(l) == [i \in DOMAIN l |-> R(l[i])]

-----------------------------------------------------------------------------
(* Items built by a rule *)

\* onnx.helper.make_node(op, inputs, outputs, name=..., **attrs); nm = <<>> when
\* the call gives no name
N(op, ins, outs, nm, attrs) ==
    [kind |-> "node", op |-> op, inputs |-> ins, outputs |-> outs, name |-> nm,
     attrs |-> attrs]

\* the tensor appended to the initializer list and the value info returned
I(nm, val, dtype, dims) ==
    [kind |-> "init", name |-> nm, val |-> val, dtype |-> dtype, dims |-> dims]

\* a value info that has no initializer (graph input placeholder)
VI(nm) == [kind |-> "input", name |-> nm]

Ok(items) == [items |-> items, err |-> ""]

\* the rule raised err after evaluating items
Raise(items, err) == [items |-> items, err |-> err]

\* the error of the rules that need opset 11
OpsetError == "AttributeError: ONNX opset 11 or greater is required to export this operator"

NoAttrs == <<>>

RECURSIVE Log2(_)
Log2(v) == IF v < 2 THEN 0 ELSE 1 + Log2(v \div 2)

\* the 16 bits of the float16 value x as an unsigned integer (sign, 5 bits of
\* exponent with bias 15, 10 bits of fraction), for whole numbers up to 2048
Float16Bits(x) ==
    LET v == Abs(x[1])
        sign == IF x[1] < 0 THEN 32768 ELSE 0
    IN  IF v = 0 THEN sign
        ELSE sign + (Log2(v) + 15) * 1024 + ((v - 2 ^ Log2(v)) * 1024) \div (2 ^ Log2(v))

\* tensor_np.view(dtype=np.uint16).flatten().tolist() (line 190)
F16Bits(val) == [i \in DOMAIN val |-> R(Float16Bits(val[i]))]

create_const_scalar_node(input_name, value, dtype) ==
    I(input_name, <<value>>, dtype, <<>>)

create_const_node(input_name, value, dtype) ==
    I(input_name, value, dtype, <<Len(value)>>)

create_tensor(tensor_list, tensor_name, dtype) ==
    I(tensor_name, IF dtype = "float16" THEN F16Bits(tensor_list) ELSE tensor_list,
      dtype, <<Len(tensor_list)>>)

\* input_nodes of get_inputs: the name of the processed node that the lookup
\* table gives for each input reference (the output index ip[1] is not read)
InputNodes(node, kw) ==
    [i \in DOMAIN node.inputs |-> kw.proc_nodes[kw.index_lookup[node.inputs[i][1]]].name]

\* get_inputs that hands out the node's own input list as input_nodes
get_inputs_node_list(node, kw) ==
    [name |-> node.name, input_nodes |-> node.inputs, attrs |-> node.attrs,
     object |-> "node.inputs"]

\* get_inputs: name, input_nodes, attrs; object tells which list object
\* input_nodes is: the list created empty at line 139, owned by the caller
get_inputs(node, kw) ==
    [name |-> node.name, input_nodes |-> InputNodes(node, kw), attrs |-> node.attrs,
     object |-> "fresh"]

\* input_nodes.append(x) on the list gi.input_nodes of get_inputs: the list
\* after the call, and the source node after it (changed only when the list is
\* the node's own)
input_nodes_append(gi, node, x) ==
    [input_nodes |-> Append(gi.input_nodes, x),
     node |-> IF gi.object = "node.inputs" THEN [node EXCEPT !.inputs = Append(@, x)]
              ELSE node]

\* the result of a rule together with the source node as the rule leaves it
WithNode(r, node) == [items |-> r.items, err |-> r.err, node |-> node]

\* a basic operator node that carries the attributes of the source node
create_basic_op_node_with_attrs(op_name, node, kw) ==
    Ok(<< N(op_name, InputNodes(node, kw), <<node.name>>, node.name, node.attrs) >>)

create_basic_op_node(op_name, node, kw) ==
    Ok(<< N(op_name, InputNodes(node, kw), <<node.name>>, node.name, NoAttrs) >>)

\* @mx_op.register("null")
convert_weights_and_inputs(node, kw) ==
    IF kw.is_input = FALSE
    THEN Ok(<< I(node.name, kw.weights, kw.in_type, <<Len(kw.weights)>>) >>)
    ELSE Ok(<< VI(node.name) >>)

-----------------------------------------------------------------------------
(* Scalar arithmetic rules *)

StartsWith(name, prefix) == Len(name) > 0 /\ name[1] = prefix

\* the first entry of the initializer list whose name is nm, 0 if there is none
FirstNamed(inits, nm) ==
    IF \E i \in DOMAIN inits : inits[i].name = nm
    THEN CHOOSE i \in DOMAIN inits :
            /\ inits[i].name = nm
            /\ \A j \in DOMAIN inits : inits[j].name = nm => i <= j
    ELSE 0

\* new_initializer of scalar_op_helper, for one element a of the constant
FoldElem(op_name, name, a, s) ==
    CASE op_name = "Mul" -> VMul(a, s)
      [] op_name = "Sub" ->
            IF StartsWith(name, "_rminusscalar") THEN VSub(s, a) ELSE VSub(a, s)
      [] op_name = "Add" -> VAdd(a, s)
      [] op_name = "Div" ->
            IF StartsWith(name, "_rdivscalar") THEN VDiv(s, a) ELSE VDiv(a, s)
      [] op_name = "Pow" -> VPow(a, s[1])

\* scalar_op_helper whose fused path also returns an operator node
scalar_op_helper_fused_node(node, op_name, kw) ==
    LET name == node.name
        input_nodes == InputNodes(node, kw)
        scalar_value == R(Get(node.attrs, "scalar", 1))
        hit == FirstNamed(kw.initializer, input_nodes[1])
    IN  IF hit = 0
        THEN LET scalar_op_name == <<"scalar_op", Str(kw.idx)>>
             IN  Ok(<< I(scalar_op_name, <<scalar_value>>, kw.in_type, <<1>>),
                       N(op_name, <<input_nodes[1], scalar_op_name>>, <<name>>, name, NoAttrs) >>)
        ELSE LET arr == kw.initializer[hit].val
                 new_initializer == [i \in DOMAIN arr |-> FoldElem(op_name, name, arr[i], scalar_value)]
                 new_a_node == input_nodes[1] \o <<Str(kw.idx)>>
             IN  Ok(<< I(new_a_node, new_initializer, kw.in_type, <<Len(new_initializer)>>),
                       N("Identity", <<new_a_node>>, <<name>>, name, NoAttrs) >>)

\* scalar_op_helper whose binary node takes the constant first
scalar_op_helper_swapped(node, op_name, kw) ==
    LET name == node.name
        input_nodes == InputNodes(node, kw)
        scalar_value == R(Get(node.attrs, "scalar", 1))
        hit == FirstNamed(kw.initializer, input_nodes[1])
    IN  IF hit = 0
        THEN LET scalar_op_name == <<"scalar_op", Str(kw.idx)>>
             IN  Ok(<< I(scalar_op_name, <<scalar_value>>, kw.in_type, <<1>>),
                       N(op_name, <<scalar_op_name, input_nodes[1]>>, <<name>>, name, NoAttrs) >>)
        ELSE LET arr == kw.initializer[hit].val
                 new_initializer == [i \in DOMAIN arr |-> FoldElem(op_name, name, arr[i], scalar_value)]
                 new_a_node == input_nodes[1] \o <<Str(kw.idx)>>
             IN  Ok(<< I(new_a_node, new_initializer, kw.in_type, <<Len(new_initializer)>>) >>)

scalar_op_helper(node, op_name, kw) ==
    LET name == node.name
        input_nodes == InputNodes(node, kw)
        scalar_value == R(Get(node.attrs, "scalar", 1))
        hit == FirstNamed(kw.initializer, input_nodes[1])
    IN  IF hit = 0
        THEN LET scalar_op_name == <<"scalar_op", Str(kw.idx)>>
             IN  Ok(<< I(scalar_op_name, <<scalar_value>>, kw.in_type, <<1>>),
                       N(op_name, <<input_nodes[1], scalar_op_name>>, <<name>>, name, NoAttrs) >>)
        ELSE LET arr == kw.initializer[hit].val
                 new_initializer == [i \in DOMAIN arr |-> FoldElem(op_name, name, arr[i], scalar_value)]
                 new_a_node == input_nodes[1] \o <<Str(kw.idx)>>
             IN  Ok(<< I(new_a_node, new_initializer, kw.in_type, <<Len(new_initializer)>>) >>)

convert_mul_scalar(node, kw) == scalar_op_helper(node, "Mul", kw)

convert_minus_scalar(node, kw) == scalar_op_helper(node, "Sub", kw)

convert_rminus_scalar(node, kw) == scalar_op_helper(node, "Sub", kw)

convert_add_scalar(node, kw) == scalar_op_helper(node, "Add", kw)

convert_div_scalar(node, kw) == scalar_op_helper(node, "Div", kw)

convert_rdiv_scalar(node, kw) == scalar_op_helper(node, "Div", kw)

convert_pow_scalar(node, kw) == scalar_op_helper(node, "Pow", kw)

ScalarOps == {"_mul_scalar", "_minus_scalar", "_rminus_scalar", "_plus_scalar",
              "_div_scalar", "_rdiv_scalar", "_power_scalar"}

-----------------------------------------------------------------------------
(* Direct renames: the rules that only call create_basic_op_node *)

BasicOps ==
    [tanh |-> "Tanh", cos |-> "Cos", sin |-> "Sin", tan |-> "Tan", arccos |-> "Acos",
     arcsin |-> "Asin", arctan |-> "Atan", sigmoid |-> "Sigmoid", relu |-> "Relu",
     exp |-> "Exp", _copy |-> "Identity", identity |-> "ConstantFill",
     BlockGrad |-> "ConstantFill", MakeLoss |-> "ConstantFill", Flatten |-> "Flatten",
     _maximum |-> "Max", _minimum |-> "Min", elemwise_add |-> "Add",
     broadcast_add |-> "Add", elemwise_sub |-> "Sub", broadcast_sub |-> "Sub",
     elemwise_mul |-> "Mul", broadcast_mul |-> "Mul", elemwise_div |-> "Div",
     broadcast_div |-> "Div", negative |-> "Neg", abs |-> "Abs", add_n |-> "Sum",
     ceil |-> "Ceil", floor |-> "Floor", log |-> "Log", reciprocal |-> "Reciprocal",
     _power |-> "Pow", broadcast_power |-> "Pow", sqrt |-> "Sqrt",
     shape_array |-> "Shape", broadcast_lesser |-> "Less",
     broadcast_greater |-> "Greater", broadcast_equal |-> "Equal",
     broadcast_logical_and |-> "And", broadcast_logical_or |-> "Or",
     broadcast_logical_xor |-> "Xor", logical_not |-> "Not", size_array |-> "Size"]

-----------------------------------------------------------------------------
(* Attribute parsing *)

\* Python's None: the element that convert_string_to_list appends for the token
\* "None", and the value 'None' of an integer attribute
NoneVal == 0 - 999999

Digits == {"0", "1", "2", "3", "4", "5", "6", "7", "8", "9"}

DigitVal(c) ==
    CASE c = "0" -> 0 [] c = "1" -> 1 [] c = "2" -> 2 [] c = "3" -> 3 [] c = "4" -> 4
      [] c = "5" -> 5 [] c = "6" -> 6 [] c = "7" -> 7 [] c = "8" -> 8 [] c = "9" -> 9

\* str.split(sep)
RECURSIVE SplitAt(_, _, _)
SplitAt(s, sep, cur) ==
    IF s = <<>> THEN <<cur>>
    ELSE IF Head(s) = sep THEN <<cur>> \o SplitAt(Tail(s), sep, <<>>)
    ELSE SplitAt(Tail(s), sep, Append(cur, Head(s)))

Split(s, sep) == SplitAt(s, sep, <<>>)

\* str.strip()
RECURSIVE LStrip(_)
LStrip(s) == IF s # <<>> /\ Head(s) = " " THEN LStrip(Tail(s)) ELSE s

RECURSIVE RStrip(_)
RStrip(s) == IF s # <<>> /\ s[Len(s)] = " " THEN RStrip(SubSeq(s, 1, Len(s) - 1)) ELSE s

Strip(s) == RStrip(LStrip(s))

\* the val.replace(c, "") chain of convert_string_to_list
Unwrap(s) == SelectSeq(s, LAMBDA c : c \notin {"(", ")", "L", "[", "]"})

\* int(val) succeeds
IsInt(s) ==
    LET t == Strip(s)
        d == IF t # <<>> /\ t[1] \in {"-", "+"} THEN Tail(t) ELSE t
    IN  d # <<>> /\ \A i \in DOMAIN d : d[i] \in Digits

RECURSIVE Nat10(_)
Nat10(d) == IF d = <<>> THEN 0 ELSE 10 * Nat10(SubSeq(d, 1, Len(d) - 1)) + DigitVal(d[Len(d)])

\* int(val)
ToInt(s) ==
    LET t == Strip(s)
    IN  IF t[1] = "-" THEN 0 - Nat10(Tail(t))
        ELSE IF t[1] = "+" THEN Nat10(Tail(t))
        ELSE Nat10(t)

NoneChars == <<"N", "o", "n", "e">>

Pieces(string_val) ==
    LET list_string == Split(string_val, ",")
    IN  [i \in DOMAIN list_string |-> Unwrap(Strip(list_string[i]))]

\* int(val) raises ValueError for some element
ListValueError(string_val) ==
    \E i \in DOMAIN Pieces(string_val) :
        LET val == Pieces(string_val)[i]
        IN  val # NoneChars /\ val # <<>> /\ ~IsInt(val)

RECURSIVE ListOf(_)
ListOf(pieces) ==
    IF pieces = <<>> THEN <<>>
    ELSE LET val == Head(pieces)
         IN  (IF val = NoneChars THEN <<NoneVal>>
              ELSE IF val # <<>> THEN <<ToInt(val)>>
              ELSE <<>>) \o ListOf(Tail(pieces))

convert_string_to_list(string_val) == ListOf(Pieces(string_val))

transform_padding(pad_width) ==
    LET num_pad_values == Len(pad_width)
        half == num_pad_values \div 2
    IN  [k \in 1..num_pad_values |->
            IF k <= half THEN pad_width[2 * (k - 1) + 1] ELSE pad_width[2 * (k - half - 1) + 2]]

get_boolean_attribute_value(attrs, attr_name) ==
    IF Has(attrs, attr_name) /\ attrs[attr_name] \in {"True", "1"} THEN 1 ELSE 0

\* seq[i] with Python's indexing (0-based, negative from the end)
PyIn(seq, i) == (i >= 0 /\ i < Len(seq)) \/ (i < 0 /\ 0 - i <= Len(seq))

PyAt(seq, i) == IF i >= 0 THEN seq[i + 1] ELSE seq[Len(seq) + i + 1]

-----------------------------------------------------------------------------
(* parse_helper *)

\* the characters of the class [0-9L|,| ] of tuple_re
TupleChars == Digits \cup {"L", "|", ",", " "}

\* a match of \([0-9L|,| ]+\) at the 1-based positions i..j of s
IsMatch(s, i, j) ==
    /\ 1 <= i /\ i + 1 < j /\ j <= Len(s)
    /\ s[i] = "(" /\ s[j] = ")"
    /\ \A k \in (i + 1)..(j - 1) : s[k] \in TupleChars

\* tuple_re.search(s).span() as <<start, end>> (0-based, end exclusive): the
\* leftmost match, the longest at that start; <<-1, -1>> when there is none
Search(s) ==
    LET starts == {i \in 1..Len(s) : \E j \in 1..Len(s) : IsMatch(s, i, j)}
    IN  IF starts = {} THEN <<-1, -1>>
        ELSE LET i == CHOOSE i \in starts : \A k \in starts : i <= k
                 j == CHOOSE j \in 1..Len(s) :
                          IsMatch(s, i, j) /\ \A k \in 1..Len(s) : IsMatch(s, i, k) => k <= j
             IN  <<i - 1, j>>

\* the decimal literals between the commas of a fully matched string; a last
\* empty piece is the trailing comma of a tuple display
EvalPieces(s) ==
    LET pieces == Split(SubSeq(s, 2, Len(s) - 1), ",")
    IN  IF Len(pieces) > 1 /\ pieces[Len(pieces)] = <<>>
        THEN SubSeq(pieces, 1, Len(pieces) - 1)
        ELSE pieces

IsDecimal(d) ==
    /\ d # <<>>
    /\ \A k \in DOMAIN d : d[k] \in Digits
    /\ (d[1] = "0" => \A k \in DOMAIN d : d[k] = "0")

\* eval(attrs_str) of a fully matched string: a tuple of integers when the
\* string is a tuple display of decimal literals; otherwise some other value
\* or a SyntaxError ("other")
EvalDims(s) ==
    LET pieces == EvalPieces(s)
        stripped == [k \in DOMAIN pieces |-> Strip(pieces[k])]
    IN  IF /\ \E k \in DOMAIN s : s[k] = ","
           /\ \A k \in DOMAIN stripped : IsDecimal(stripped[k])
        THEN [kind |-> "dims", dims |-> [k \in DOMAIN stripped |-> Nat10(stripped[k])]]
        ELSE [kind |-> "other", dims |-> <<>>]

NotParsed == [kind |-> "none", dims |-> <<>>]

parse_helper(attrs, attrs_name, alt_value) ==
    IF DOMAIN attrs = {} THEN [kind |-> "alt_value", dims |-> alt_value]
    ELSE IF ~Has(attrs, attrs_name) THEN [kind |-> "alt_value", dims |-> alt_value]
    ELSE LET attrs_str == attrs[attrs_name]
             span == Search(attrs_str)
         IN  IF span # <<-1, -1>>
             THEN IF span = <<0, Len(attrs_str)>>
                  THEN EvalDims(attrs_str)
                  ELSE [kind |-> "AttributeError", dims |-> <<>>]
             ELSE [kind |-> "alt_value", dims |-> alt_value]

-----------------------------------------------------------------------------
(* Translation rules *)

\* the Pooling rule with the p value defaulted to 2 when it is not given
convert_pooling_default_p(node, kw) ==
    LET name == node.name
        input_nodes == InputNodes(node, kw)
        attrs == node.attrs
        pool_type == Get(attrs, "pool_type", "max")
        stride == IF Has(attrs, "stride") THEN EvalDims(attrs["stride"]).dims ELSE <<1, 1>>
        global_pool == get_boolean_attribute_value(attrs, "global_pool")
        p_value == Get(attrs, "p_value", <<"2">>)
        ceil_mode == IF Get(attrs, "pooling_convention", "valid") = "full" THEN 1 ELSE 0
        pad == parse_helper(attrs, "pad", <<0, 0>>)
        pad_dims == pad.dims \o pad.dims
        pool_types == [max |-> "MaxPool", avg |-> "AveragePool", lp |-> "LpPool"]
        global_pool_types == [max |-> "GlobalMaxPool", avg |-> "GlobalAveragePool",
                              lp |-> "GlobalLpPool"]
    IN  IF ~Has(attrs, "kernel") THEN Raise(<<>>, "KeyError")
        ELSE IF pad.kind = "AttributeError" THEN Raise(<<>>, "AttributeError")
        ELSE IF pool_type \notin DOMAIN pool_types THEN Raise(<<>>, "KeyError")
        ELSE IF pool_type = "lp" /\ ~IsInt(p_value) THEN Raise(<<>>, "ValueError")
        ELSE LET kernel == EvalDims(attrs["kernel"]).dims
                 shape_attrs == [kernel_shape |-> kernel, pads |-> pad_dims, strides |-> stride]
             IN  IF global_pool = 1
                 THEN Ok(<< N(global_pool_types[pool_type], input_nodes, <<name>>, name,
                              IF pool_type = "lp" THEN [p |-> ToInt(p_value)] ELSE NoAttrs) >>)
                 ELSE Ok(<< N(pool_types[pool_type], input_nodes, <<name>>, name,
                              IF pool_type = "lp" THEN [p |-> ToInt(p_value)] @@ shape_attrs
                              ELSE IF kw.opset_version >= 10
                              THEN shape_attrs @@ [ceil_mode |-> ceil_mode]
                              ELSE shape_attrs) >>)

\* the Pooling rule that writes ceil_mode from opset 9 on
convert_pooling_ceil_mode_early(node, kw) ==
    LET name == node.name
        input_nodes == InputNodes(node, kw)
        attrs == node.attrs
        pool_type == Get(attrs, "pool_type", "max")
        stride == IF Has(attrs, "stride") THEN EvalDims(attrs["stride"]).dims ELSE <<1, 1>>
        global_pool == get_boolean_attribute_value(attrs, "global_pool")
        p_value == Get(attrs, "p_value", NoneChars)
        ceil_mode == IF Get(attrs, "pooling_convention", "valid") = "full" THEN 1 ELSE 0
        pad == parse_helper(attrs, "pad", <<0, 0>>)
        pad_dims == pad.dims \o pad.dims
        pool_types == [max |-> "MaxPool", avg |-> "AveragePool", lp |-> "LpPool"]
        global_pool_types == [max |-> "GlobalMaxPool", avg |-> "GlobalAveragePool",
                              lp |-> "GlobalLpPool"]
    IN  IF ~Has(attrs, "kernel") THEN Raise(<<>>, "KeyError")
        ELSE IF pad.kind = "AttributeError" THEN Raise(<<>>, "AttributeError")
        ELSE IF pool_type = "lp" /\ p_value = NoneChars
        THEN Raise(<<>>, "AttributeError")
        ELSE IF pool_type \notin DOMAIN pool_types THEN Raise(<<>>, "KeyError")
        ELSE IF pool_type = "lp" /\ ~IsInt(p_value) THEN Raise(<<>>, "ValueError")
        ELSE LET kernel == EvalDims(attrs["kernel"]).dims
                 shape_attrs == [kernel_shape |-> kernel, pads |-> pad_dims, strides |-> stride]
             IN  IF global_pool = 1
                 THEN Ok(<< N(global_pool_types[pool_type], input_nodes, <<name>>, name,
                              IF pool_type = "lp" THEN [p |-> ToInt(p_value)] ELSE NoAttrs) >>)
                 ELSE Ok(<< N(pool_types[pool_type], input_nodes, <<name>>, name,
                              IF pool_type = "lp" THEN [p |-> ToInt(p_value)] @@ shape_attrs
                              ELSE IF kw.opset_version >= 9
                              THEN shape_attrs @@ [ceil_mode |-> ceil_mode]
                              ELSE shape_attrs) >>)

\* @mx_op.register("Pooling")
convert_pooling(node, kw) ==
    LET name == node.name
        input_nodes == InputNodes(node, kw)
        attrs == node.attrs
        pool_type == Get(attrs, "pool_type", "max")
        stride == IF Has(attrs, "stride") THEN EvalDims(attrs["stride"]).dims ELSE <<1, 1>>
        global_pool == get_boolean_attribute_value(attrs, "global_pool")
        p_value == Get(attrs, "p_value", NoneChars)
        ceil_mode == IF Get(attrs, "pooling_convention", "valid") = "full" THEN 1 ELSE 0
        pad == parse_helper(attrs, "pad", <<0, 0>>)
        pad_dims == pad.dims \o pad.dims
        pool_types == [max |-> "MaxPool", avg |-> "AveragePool", lp |-> "LpPool"]
        global_pool_types == [max |-> "GlobalMaxPool", avg |-> "GlobalAveragePool",
                              lp |-> "GlobalLpPool"]
    IN  IF ~Has(attrs, "kernel") THEN Raise(<<>>, "KeyError")
        ELSE IF pad.kind = "AttributeError" THEN Raise(<<>>, "AttributeError")
        ELSE IF pool_type = "lp" /\ p_value = NoneChars
        THEN Raise(<<>>, "AttributeError")
        ELSE IF pool_type \notin DOMAIN pool_types THEN Raise(<<>>, "KeyError")
        ELSE IF pool_type = "lp" /\ ~IsInt(p_value) THEN Raise(<<>>, "ValueError")
        ELSE LET kernel == EvalDims(attrs["kernel"]).dims
                 shape_attrs == [kernel_shape |-> kernel, pads |-> pad_dims, strides |-> stride]
             IN  IF global_pool = 1
                 THEN Ok(<< N(global_pool_types[pool_type], input_nodes, <<name>>, name,
                              IF pool_type = "lp" THEN [p |-> ToInt(p_value)] ELSE NoAttrs) >>)
                 ELSE Ok(<< N(pool_types[pool_type], input_nodes, <<name>>, name,
                              IF pool_type = "lp" THEN [p |-> ToInt(p_value)] @@ shape_attrs
                              ELSE IF kw.opset_version >= 10
                              THEN shape_attrs @@ [ceil_mode |-> ceil_mode]
                              ELSE shape_attrs) >>)

\* @mx_op.register("_contrib_AdaptiveAvgPooling2D")
convert_contrib_AdaptiveAvgPooling2D(node, kw) ==
    LET name == node.name
        input_nodes == InputNodes(node, kw)
        attrs == node.attrs
        output_size == convert_string_to_list(Get(attrs, "output_size", <<"1">>))
    IN  IF Len(output_size) = 0 THEN Raise(<<>>, "IndexError")
        ELSE IF /\ Len(output_size) <= 2
                /\ (output_size[1] # 1 \/ (Len(output_size) = 2 /\ output_size[2] # 1))
        THEN Raise(<<>>, "NotImplementedError")
        ELSE Ok(<< N("GlobalAveragePool", <<input_nodes[1]>>, <<name>>, name, NoAttrs) >>)

\* the value written for an end that is None, 2**63-1 (line 2603); the largest
\* integer of the model checker stands for it
MaxInt64 == 2147483647

\* the slice rule with the step check made after the scalar constants
convert_slice_late_check(node, kw) ==
    LET name == node.name
        input_nodes == InputNodes(node, kw)
        attrs == node.attrs
        starts0 == convert_string_to_list(attrs["begin"])
        ends0 == convert_string_to_list(attrs["end"])
        steps0 == convert_string_to_list(Get(attrs, "step", <<"[", "]">>))
        default == Len(steps0) = 0 \/ (Len(steps0) = 1 /\ steps0[1] = NoneVal)
        steps == IF default THEN [i \in DOMAIN starts0 |-> 1]
                 ELSE [i \in DOMAIN steps0 |-> IF steps0[i] = NoneVal THEN 1 ELSE steps0[i]]
        starts == [i \in DOMAIN starts0 |-> IF starts0[i] = NoneVal THEN 0 ELSE starts0[i]]
        ends == [i \in DOMAIN ends0 |-> IF ends0[i] = NoneVal THEN MaxInt64 ELSE ends0[i]]
        consts == << create_const_scalar_node(name \o <<"_0_s">>, R(0), "int64"),
                     create_const_scalar_node(name \o <<"_1_s">>, R(1), "int64"),
                     create_const_scalar_node(name \o <<"_len_s">>, R(Len(starts)), "int64") >>
    IN  IF ~Has(attrs, "begin") \/ ~Has(attrs, "end") THEN Raise(<<>>, "AttributeError")
        ELSE IF Len(starts0) # Len(ends0) THEN Raise(<<>>, "AssertionError")
        ELSE IF ~default /\ Len(steps0) # Len(starts0) THEN Raise(<<>>, "AssertionError")
        ELSE IF \E i \in DOMAIN steps : steps[i] < 0
        THEN Raise(consts, "NotImplementedError")
        ELSE Ok(consts \o
                << N("Range", <<name \o <<"_0_s">>, name \o <<"_len_s">>, name \o <<"_1_s">>>>,
                     <<name \o <<"_axes">>>>, <<>>, NoAttrs),
                   create_tensor(T(starts), name \o <<"_starts">>, "int64"),
                   create_tensor(T(ends), name \o <<"_ends">>, "int64"),
                   create_tensor(T(steps), name \o <<"_steps">>, "int64"),
                   N("Slice", <<input_nodes[1], name \o <<"_starts">>, name \o <<"_ends">>,
                               name \o <<"_axes">>, name \o <<"_steps">>>>,
                     <<name>>, name, NoAttrs) >>)

\* @mx_op.register("slice")
convert_slice(node, kw) ==
    LET name == node.name
        input_nodes == InputNodes(node, kw)
        attrs == node.attrs
        starts0 == convert_string_to_list(attrs["begin"])
        ends0 == convert_string_to_list(attrs["end"])
        steps0 == convert_string_to_list(Get(attrs, "step", <<"[", "]">>))
        default == Len(steps0) = 0 \/ (Len(steps0) = 1 /\ steps0[1] = NoneVal)
        steps == IF default THEN [i \in DOMAIN starts0 |-> 1]
                 ELSE [i \in DOMAIN steps0 |-> IF steps0[i] = NoneVal THEN 1 ELSE steps0[i]]
        starts == [i \in DOMAIN starts0 |-> IF starts0[i] = NoneVal THEN 0 ELSE starts0[i]]
        ends == [i \in DOMAIN ends0 |-> IF ends0[i] = NoneVal THEN MaxInt64 ELSE ends0[i]]
        consts == << create_const_scalar_node(name \o <<"_0_s">>, R(0), "int64"),
                     create_const_scalar_node(name \o <<"_1_s">>, R(1), "int64"),
                     create_const_scalar_node(name \o <<"_len_s">>, R(Len(starts)), "int64") >>
    IN  IF ~Has(attrs, "begin") \/ ~Has(attrs, "end") THEN Raise(<<>>, "AttributeError")
        ELSE IF Len(starts0) # Len(ends0) THEN Raise(<<>>, "AssertionError")
        ELSE IF ~default /\ Len(steps0) # Len(starts0) THEN Raise(<<>>, "AssertionError")
        ELSE IF \E i \in DOMAIN steps : steps[i] < 0
        THEN Raise(<<>>, "NotImplementedError")
        ELSE Ok(consts \o
                << N("Range", <<name \o <<"_0_s">>, name \o <<"_len_s">>, name \o <<"_1_s">>>>,
                     <<name \o <<"_axes">>>>, <<>>, NoAttrs),
                   create_tensor(T(starts), name \o <<"_starts">>, "int64"),
                   create_tensor(T(ends), name \o <<"_ends">>, "int64"),
                   create_tensor(T(steps), name \o <<"_steps">>, "int64"),
                   N("Slice", <<input_nodes[1], name \o <<"_starts">>, name \o <<"_ends">>,
                               name \o <<"_axes">>, name \o <<"_steps">>>>,
                     <<name>>, name, NoAttrs) >>)

\* x in s for two strings: x occurs in s as a run of characters
IsSubstring(x, s) ==
    \E i \in 1..(Len(s) + 1) : i + Len(x) - 1 <= Len(s) /\ SubSeq(s, i, i + Len(x) - 1) = x

\* np.float32(1.4142135623730951), to four decimals
Sqrt2 == <<7071, 5000>>

\* @mx_op.register("LeakyReLU")
convert_leakyrelu(node, kw) ==
    LET name == node.name
        input_nodes == InputNodes(node, kw)
        attrs == node.attrs
        act_type == Get(attrs, "act_type", <<"l", "e", "a", "k", "y">>)
        alpha == Get(attrs, "slope", <<1, 4>>)
        act_name == [t \in {<<"e", "l", "u">>, <<"l", "e", "a", "k", "y">>, <<"p", "r", "e", "l", "u">>, <<"s", "e", "l", "u">>} |->
                        CASE t = <<"e", "l", "u">> -> "Elu"
                          [] t = <<"l", "e", "a", "k", "y">> -> "LeakyRelu"
                          [] t = <<"p", "r", "e", "l", "u">> -> "PRelu"
                          [] OTHER -> "Selu"]
    IN  IF act_type \in {<<"p", "r", "e", "l", "u">>, <<"s", "e", "l", "u">>}
        THEN Ok(<< N(act_name[act_type], input_nodes, <<name>>, name, NoAttrs) >>)
        ELSE IF IsSubstring(act_type, <<"g", "e", "l", "u">>)
        THEN Ok(<< create_const_scalar_node(name \o <<"_sqrt2">>, Sqrt2, "float32"),
                   N("Div", <<input_nodes[1], name \o <<"_sqrt2">>>>, <<name \o <<"_div0_out">>>>, <<>>, NoAttrs),
                   N("Erf", <<name \o <<"_div0_out">>>>, <<name \o <<"_erf0_out">>>>, <<>>, NoAttrs),
                   create_const_scalar_node(name \o <<"_one">>, R(1), "float32"),
                   create_const_scalar_node(name \o <<"_half">>, <<1, 2>>, "float32"),
                   N("Add", <<name \o <<"_erf0_out">>, name \o <<"_one">>>>, <<name \o <<"_add0_out">>>>, <<>>, NoAttrs),
                   N("Mul", <<input_nodes[1], name \o <<"_add0_out">>>>, <<name \o <<"_mul0_out">>>>, <<>>, NoAttrs),
                   N("Mul", <<name \o <<"_mul0_out">>, name \o <<"_half">>>>, <<name>>, name, NoAttrs) >>)
        ELSE IF act_type \notin DOMAIN act_name THEN Raise(<<>>, "KeyError")
        ELSE Ok(<< N(act_name[act_type], input_nodes, <<name>>, name, [alpha |-> alpha]) >>)

\* @mx_op.register("FullyConnected")
convert_fully_connected(node, kw) ==
    LET name == node.name
        input_nodes == InputNodes(node, kw)
        attrs == node.attrs
        dtype == kw.in_type
        flatten == get_boolean_attribute_value(attrs, "flatten")
        no_bias == get_boolean_attribute_value(attrs, "no_bias")
        num_hidden == attrs["num_hidden"]
        nodes1 == IF flatten = 1
                  THEN << N("Flatten", <<input_nodes[1]>>, <<name \o <<"_data_flattened">>>>, <<>>, NoAttrs) >>
                  ELSE << N("Shape", <<input_nodes[1]>>, <<name \o <<"_orig_shape">>>>, <<>>, NoAttrs),
                       N("Shape", <<name \o <<"_orig_shape">>>>, <<name \o <<"_dim">>>>, <<>>, NoAttrs),
                       N("Flatten", <<input_nodes[1]>>, <<name \o <<"_data_flattened">>>>, <<>>, [axis |-> -1]) >>
        in_nodes1 == <<name \o <<"_data_flattened">>, input_nodes[2]>>
        nodes2 == IF no_bias = 1
                  THEN Append(nodes1, create_const_scalar_node(name \o <<"_bias">>, R(0), dtype))
                  ELSE nodes1
        in_nodes == IF no_bias = 1 THEN Append(in_nodes1, name \o <<"_bias">>)
                    ELSE Append(in_nodes1, input_nodes[3])
    IN  IF ~Has(attrs, "num_hidden") THEN Raise(<<>>, "TypeError")
        ELSE IF no_bias = 0 /\ Len(input_nodes) < 3 THEN Raise(nodes1, "IndexError")
        ELSE IF flatten = 1
        THEN Ok(nodes2 \o << N("Gemm", in_nodes, <<name>>, name, [alpha |-> 1, beta |-> 1, transA |-> 0, transB |-> 1]) >>)
        ELSE Ok(nodes2 \o << N("Gemm", in_nodes, <<name \o <<"_gemm">>>>, <<>>, [alpha |-> 1, beta |-> 1, transA |-> 0, transB |-> 1]),
                       create_tensor(<<R(0)>>, name \o <<"_", "0">>, "int64"),
                       create_tensor(<<R(1)>>, name \o <<"_", "1">>, "int64"),
                       create_tensor(<<R(num_hidden)>>, name \o <<"_num_hidden">>, "int64"),
                       N("Sub", <<name \o <<"_dim">>, name \o <<"_", "1">>>>, <<name \o <<"dim_minus_", "1">>>>, <<>>, NoAttrs),
                       N("Slice", <<name \o <<"_orig_shape">>, name \o <<"_", "0">>, name \o <<"dim_minus_", "1">>>>, <<name \o <<"_shape_sliced">>>>, <<>>, NoAttrs),
                       N("Concat", <<name \o <<"_shape_sliced">>, name \o <<"_num_hidden">>>>, <<name \o <<"_shape_new">>>>, <<>>, [axis |-> 0]),
                       N("Reshape", <<name \o <<"_gemm">>, name \o <<"_shape_new">>>>, <<name>>, name, NoAttrs) >>)

\* @mx_op.register("Pad")
convert_pad(node, kw) ==
    LET name == node.name
        input_nodes == InputNodes(node, kw)
        attrs == node.attrs
        mxnet_pad_width == convert_string_to_list(attrs["pad_width"])
        onnx_pad_width == transform_padding(mxnet_pad_width)
        pad_mode == Get(attrs, "mode", "None")
        pad_value == Get(attrs, "constant_value", 0)
    IN  IF kw.opset_version >= 11
        THEN LET nodes == << create_const_node(name \o <<"_pads">>, T(onnx_pad_width), "int64") >>
             IN  IF pad_mode = "constant"
                 THEN Ok(nodes \o
                         << create_const_scalar_node(name \o <<"_const">>, R(pad_value), "float32"),
                            N("Pad", <<input_nodes[1], name \o <<"_pads">>, name \o <<"_const">>>>,
                              <<name>>, name, [mode |-> pad_mode]) >>)
                 ELSE Ok(nodes \o
                         << N("Pad", <<input_nodes[1], name \o <<"_pads">>>>, <<name>>, name,
                              [mode |-> pad_mode]) >>)
        ELSE IF pad_mode = "constant"
             THEN Ok(<< N("Pad", input_nodes, <<name>>, name,
                          [mode |-> "constant", value |-> pad_value, pads |-> onnx_pad_width]) >>)
             ELSE Ok(<< N("Pad", input_nodes, <<name>>, name,
                          [mode |-> pad_mode, pads |-> onnx_pad_width]) >>)

create_helper_trans_node(node_name, input_node) ==
    N("Transpose", <<input_node>>, <<node_name>>, node_name, NoAttrs)

\* @mx_op.register("dot"): line 580 rebinds input_nodes to the empty list before the
\* operands are read, and line 593 calls the misspelt method nodes.appennd
convert_dot(node, kw) ==
    LET name == node.name
        attrs == node.attrs
        trans_a == get_boolean_attribute_value(attrs, "transpose_a")
        trans_b == get_boolean_attribute_value(attrs, "transpose_b")
        input_nodes == <<>>
    IN  IF Len(input_nodes) < 1 THEN Raise(<<>>, "IndexError")
        ELSE LET na == IF trans_a = 1
                       THEN << create_helper_trans_node(name \o <<"_a">>, input_nodes[1]) >>
                       ELSE <<>>
                 in_a == Append(input_nodes, IF trans_a = 1 THEN name \o <<"_a">> ELSE input_nodes[1])
             IN  IF Len(in_a) < 2 THEN Raise(na, "IndexError")
                 ELSE Raise(na \o (IF trans_b = 1
                                   THEN << create_helper_trans_node(name \o <<"_b">>, in_a[2]) >>
                                   ELSE <<>>), "AttributeError")

\* @mx_op.register("_linalg_gemm2")
convert_linalg_gemm2(node, kw) ==
    LET name == node.name
        input_nodes == InputNodes(node, kw)
        attrs == node.attrs
        alpha == Get(attrs, "alpha", 1)
        trans_a == get_boolean_attribute_value(attrs, "transpose_a")
        trans_b == get_boolean_attribute_value(attrs, "transpose_b")
        op_name == <<"transpose", Str(kw.idx)>>
        trans_a_node == N("Transpose", <<input_nodes[1]>>, <<op_name \o <<"_a">>>>,
                          op_name \o <<"_a">>, NoAttrs)
        trans_b_node == N("Transpose", <<input_nodes[2]>>, <<op_name \o <<"_b">>>>,
                          op_name \o <<"_b">>, NoAttrs)
    IN  IF alpha = 1 /\ trans_a = 0 /\ trans_b = 0
        THEN Ok(<< N("MatMul", input_nodes, <<name>>, name, NoAttrs) >>)
        ELSE IF trans_a = 1 /\ trans_b = 0
        THEN Ok(<< trans_a_node,
                   N("MatMul", <<op_name \o <<"_a">>, input_nodes[2]>>, <<name>>, name, NoAttrs) >>)
        ELSE IF trans_a = 0 /\ trans_b = 1
        THEN Ok(<< trans_b_node,
                   N("MatMul", <<input_nodes[1], op_name \o <<"_b">>>>, <<name>>, name, NoAttrs) >>)
        ELSE Ok(<< trans_a_node, trans_b_node,
                   N("MatMul", input_nodes, <<name>>, name, NoAttrs) >>)

\* the mask output with the division by the masked sum itself
softmax_mask_output_unguarded(name, axis, input_type) ==
    << N("Less", <<name \o <<"_reshape0_out">>, name \o <<"_reshape1_out">>>>, <<name \o <<"_less_out">>>>, <<>>, NoAttrs),
       N("Cast", <<name \o <<"_less_out">>>>, <<name \o <<"_mask">>>>, <<>>, [to |-> input_type]),
       N("Mul", <<name \o <<"_div1_out">>, name \o <<"_mask">>>>, <<name \o <<"_mul3_out">>>>, <<>>, NoAttrs),
       N("ReduceSum", <<name \o <<"_mul3_out">>>>, <<name \o <<"_rsum1_out">>>>, <<>>, [axes |-> <<axis>>, keepdims |-> 1]),
       N("Div", <<name \o <<"_mul3_out">>, name \o <<"_rsum1_out">>>>, <<name>>, name, NoAttrs) >>

\* the mask output with the operands of the comparison exchanged
softmax_mask_output_swapped(name, axis, input_type) ==
    << N("Less", <<name \o <<"_reshape1_out">>, name \o <<"_reshape0_out">>>>, <<name \o <<"_less_out">>>>, <<>>, NoAttrs),
       N("Cast", <<name \o <<"_less_out">>>>, <<name \o <<"_mask">>>>, <<>>, [to |-> input_type]),
       N("Mul", <<name \o <<"_div1_out">>, name \o <<"_mask">>>>, <<name \o <<"_mul3_out">>>>, <<>>, NoAttrs),
       N("ReduceSum", <<name \o <<"_mul3_out">>>>, <<name \o <<"_rsum1_out">>>>, <<>>, [axes |-> <<axis>>, keepdims |-> 1]),
       N("Equal", <<name \o <<"_rsum1_out">>, name \o <<"_0_itype">>>>, <<name \o <<"_equal1_out">>>>, <<>>, NoAttrs),
       N("Where", <<name \o <<"_equal1_out">>, name \o <<"_1_itype">>, name \o <<"_rsum1_out">>>>, <<name \o <<"_where_out">>>>, <<>>, NoAttrs),
       N("Div", <<name \o <<"_mul3_out">>, name \o <<"_where_out">>>>, <<name>>, name, NoAttrs) >>

\* convert_softmax, "mask output" (lines 934-941): the softmax output times the
\* mask, its sum along the axis, the selection of 1 where that sum is 0, and the
\* final division
softmax_mask_output(name, axis, input_type) ==
    << N("Less", <<name \o <<"_reshape0_out">>, name \o <<"_reshape1_out">>>>, <<name \o <<"_less_out">>>>, <<>>, NoAttrs),
       N("Cast", <<name \o <<"_less_out">>>>, <<name \o <<"_mask">>>>, <<>>, [to |-> input_type]),
       N("Mul", <<name \o <<"_div1_out">>, name \o <<"_mask">>>>, <<name \o <<"_mul3_out">>>>, <<>>, NoAttrs),
       N("ReduceSum", <<name \o <<"_mul3_out">>>>, <<name \o <<"_rsum1_out">>>>, <<>>, [axes |-> <<axis>>, keepdims |-> 1]),
       N("Equal", <<name \o <<"_rsum1_out">>, name \o <<"_0_itype">>>>, <<name \o <<"_equal1_out">>>>, <<>>, NoAttrs),
       N("Where", <<name \o <<"_equal1_out">>, name \o <<"_1_itype">>, name \o <<"_rsum1_out">>>>, <<name \o <<"_where_out">>>>, <<>>, NoAttrs),
       N("Div", <<name \o <<"_mul3_out">>, name \o <<"_where_out">>>>, <<name>>, name, NoAttrs) >>

\* @mx_op.register("softmax")
convert_softmax(node, kw) ==
    LET name == node.name
        input_nodes == InputNodes(node, kw)
        attrs == node.attrs
        axis == Get(attrs, "axis", -1)
        temperature == IF Get(attrs, "temperature", "None") = "None" THEN 1
                       ELSE attrs["temperature"]
        use_length == Get(attrs, "use_length", "None")
        input_type == kw.in_type
        dtype == kw.in_type
        data == input_nodes[1]
        length == input_nodes[2]
        nodes == << create_tensor(<<R(temperature)>>, name \o <<"_tmp">>, dtype),
                    N("Div", <<data, name \o <<"_tmp">>>>, <<name \o <<"_data">>>>, <<>>, NoAttrs),
                    N("Exp", <<name \o <<"_data">>>>, <<name \o <<"_exp_out">>>>, <<>>, NoAttrs),
                    N("ReduceSum", <<name \o <<"_exp_out">>>>, <<name \o <<"_rsum_out">>>>, <<>>, [axes |-> <<axis>>, keepdims |-> 1]) >>
    IN  IF Len(input_nodes) = 1
        THEN Ok(nodes \o << N("Div", <<name \o <<"_exp_out">>, name \o <<"_rsum_out">>>>, <<name>>, name, NoAttrs) >>)
        ELSE IF use_length = "True"
        THEN Ok(nodes \o
                << create_tensor(<<R(axis)>>, name \o <<"_axis">>, "int64"),
                   create_tensor(<<>>, name \o <<"_void">>, "int64"),
                   create_tensor(<<R(0)>>, name \o <<"_", "0">>, "int64"),
                   create_tensor(<<R(1)>>, name \o <<"_", "1">>, "int64"),
                   create_const_scalar_node(name \o <<"_-1_s">>, R(-1), "int64"),
                   create_const_scalar_node(name \o <<"_0_s">>, R(0), "int64"),
                   create_const_scalar_node(name \o <<"_1_s">>, R(1), "int64"),
                   N("Cast", <<length>>, <<name \o <<"_length">>>>, <<>>, [to |-> "INT64"]),
                   N("Cast", <<name \o <<"_", "0">>>>, <<name \o <<"_0_itype">>>>, <<>>, [to |-> input_type]),
                   N("Cast", <<name \o <<"_", "1">>>>, <<name \o <<"_1_itype">>>>, <<>>, [to |-> input_type]),
                   N("Div", <<name \o <<"_exp_out">>, name \o <<"_rsum_out">>>>, <<name \o <<"_div1_out">>>>, <<>>, NoAttrs),
                   N("Shape", <<data>>, <<name \o <<"_shape0_out">>>>, <<>>, NoAttrs),
                   N("Shape", <<name \o <<"_shape0_out">>>>, <<name \o <<"_in_dim">>>>, <<>>, NoAttrs),
                   N("Add", <<name \o <<"_in_dim">>, name \o <<"_axis">>>>, <<name \o <<"_dim+axis">>>>, <<>>, NoAttrs),
                   N("Less", <<name \o <<"_axis">>, name \o <<"_0_s">>>>, <<name \o <<"_less0_out">>>>, <<>>, NoAttrs),
                   N("Where", <<name \o <<"_less0_out">>, name \o <<"_dim+axis">>, name \o <<"_axis">>>>, <<name \o <<"_final_axis">>>>, <<>>, NoAttrs),
                   N("Add", <<name \o <<"_final_axis">>, name \o <<"_1_s">>>>, <<name \o <<"_final_axis+", "1">>>>, <<>>, NoAttrs),
                   N("Slice", <<name \o <<"_shape0_out">>, name \o <<"_final_axis">>, name \o <<"_final_axis+", "1">>>>, <<name \o <<"_axis_dim">>>>, <<>>, NoAttrs),
                   N("Reshape", <<name \o <<"_axis_dim">>, name \o <<"_void">>>>, <<name \o <<"_axis_dim_s">>>>, <<>>, NoAttrs),
                   N("Range", <<name \o <<"_0_s">>, name \o <<"_axis_dim_s">>, name \o <<"_1_s">>>>, <<name \o <<"_range0_out">>>>, <<>>, NoAttrs),
                   N("Reshape", <<name \o <<"_in_dim">>, name \o <<"_void">>>>, <<name \o <<"_in_dim_s">>>>, <<>>, NoAttrs),
                   N("Range", <<name \o <<"_0_s">>, name \o <<"_in_dim_s">>, name \o <<"_1_s">>>>, <<name \o <<"_range1_out">>>>, <<>>, NoAttrs),
                   N("Equal", <<name \o <<"_range1_out">>, name \o <<"_final_axis">>>>, <<name \o <<"_equal_out">>>>, <<>>, NoAttrs),
                   N("Cast", <<name \o <<"_equal_out">>>>, <<name \o <<"_one_hot">>>>, <<>>, [to |-> "INT64"]),
                   N("Sub", <<name \o <<"_axis_dim_s">>, name \o <<"_1_s">>>>, <<name \o <<"_sub0_out">>>>, <<>>, NoAttrs),
                   N("Mul", <<name \o <<"_one_hot">>, name \o <<"_sub0_out">>>>, <<name \o <<"_mul0_out">>>>, <<>>, NoAttrs),
                   N("Add", <<name \o <<"_mul0_out">>, name \o <<"_1_s">>>>, <<name \o <<"_add0_out">>>>, <<>>, NoAttrs),
                   N("Reshape", <<name \o <<"_range0_out">>, name \o <<"_add0_out">>>>, <<name \o <<"_reshape0_out">>>>, <<>>, NoAttrs),
                   N("Mul", <<name \o <<"_one_hot">>, name \o <<"_-1_s">>>>, <<name \o <<"_mul1_out">>>>, <<>>, NoAttrs),
                   N("Add", <<name \o <<"_mul1_out">>, name \o <<"_1_s">>>>, <<name \o <<"_add1_out">>>>, <<>>, NoAttrs),
                   N("Sub", <<name \o <<"_shape0_out">>, name \o <<"_1_s">>>>, <<name \o <<"_sub1_out">>>>, <<>>, NoAttrs),
                   N("Mul", <<name \o <<"_add1_out">>, name \o <<"_sub1_out">>>>, <<name \o <<"_mul2_out">>>>, <<>>, NoAttrs),
                   N("Add", <<name \o <<"_mul2_out">>, name \o <<"_1_s">>>>, <<name \o <<"_add2_out">>>>, <<>>, NoAttrs),
                   N("Reshape", <<name \o <<"_length">>, name \o <<"_add2_out">>>>, <<name \o <<"_reshape1_out">>>>, <<>>, NoAttrs) >>
                \o softmax_mask_output(name, axis, input_type))
        ELSE Raise(nodes, "NotImplementedError")

\* @mx_op.register("L2Normalization")
convert_l2normalization(node, kw) ==
    LET name == node.name
        input_nodes == InputNodes(node, kw)
        mode == Get(node.attrs, "mode", "instance")
    IN  IF mode # "channel" THEN Raise(<<>>, "AttributeError")
        ELSE Ok(<< N("LpNormalization", input_nodes, <<name>>, name, [axis |-> 1]) >>)

\* @mx_op.register("Dropout")
convert_dropout(node, kw) ==
    LET name == node.name
        input_nodes == InputNodes(node, kw)
        probability == Get(node.attrs, "p", <<1, 2>>)
    IN  IF kw.opset_version >= 12
        THEN Ok(<< create_const_scalar_node(name \o <<"_ratio", "0">>, probability, "float32"),
                   N("Dropout", <<input_nodes[1], name \o <<"_ratio", "0">>>>, <<name>>, name, NoAttrs) >>)
        ELSE Ok(<< N("Dropout", input_nodes, <<name>>, name, [ratio |-> probability]) >>)

\* convert_clip that keeps the attribute form at every opset
convert_clip_attrs_only(node, kw) ==
    LET name == node.name
        input_nodes == InputNodes(node, kw)
        a_min == Get(node.attrs, "a_min", NInf)
        a_max == Get(node.attrs, "a_max", Inf)
    IN  Ok(<< N("Clip", input_nodes, <<name>>, name, [min |-> a_min, max |-> a_max]) >>)

\* @mx_op.register("clip")
convert_clip(node, kw) ==
    LET name == node.name
        input_nodes == InputNodes(node, kw)
        a_min == Get(node.attrs, "a_min", NInf)
        a_max == Get(node.attrs, "a_max", Inf)
    IN  IF kw.opset_version >= 11
        THEN Ok(<< create_const_scalar_node(name \o <<"_min">>, a_min, "float32"),
                   create_const_scalar_node(name \o <<"_max">>, a_max, "float32"),
                   N("Clip", <<input_nodes[1], name \o <<"_min">>, name \o <<"_max">>>>,
                     <<name>>, name, NoAttrs) >>)
        ELSE Ok(<< N("Clip", input_nodes, <<name>>, name, [min |-> a_min, max |-> a_max]) >>)

\* the reverse branch with the pad length of the target selected the other way
reshape_reverse_nodes_swapped(name, input) ==
    << create_tensor(<<R(0)>>, name \o <<"_", "0">>, "int64"),
       create_tensor(<<R(1)>>, name \o <<"_", "1">>, "int64"),
       N("Shape", <<name \o <<"_targ_shape">>>>, <<name \o <<"_targ_dim">>>>, <<>>, NoAttrs),
       N("Shape", <<input>>, <<name \o <<"_orig_shape">>>>, <<>>, NoAttrs),
       N("Shape", <<name \o <<"_orig_shape">>>>, <<name \o <<"_orig_dim">>>>, <<>>, NoAttrs),
       N("Sub", <<name \o <<"_targ_dim">>, name \o <<"_orig_dim">>>>, <<name \o <<"_dim_diff">>>>, <<>>, NoAttrs),
       N("Abs", <<name \o <<"_dim_diff">>>>, <<name \o <<"_pad_len">>>>, <<>>, NoAttrs),
       N("Less", <<name \o <<"_targ_dim">>, name \o <<"_orig_dim">>>>, <<name \o <<"_targ_less_orig">>>>, <<>>, NoAttrs),
       N("Less", <<name \o <<"_orig_dim">>, name \o <<"_targ_dim">>>>, <<name \o <<"_orig_less_targ">>>>, <<>>, NoAttrs),
       N("Where", <<name \o <<"_targ_less_orig">>, name \o <<"_", "0">>, name \o <<"_pad_len">>>>, <<name \o <<"_targ_pad_len">>>>, <<>>, NoAttrs),
       N("Where", <<name \o <<"_orig_less_targ">>, name \o <<"_pad_len">>, name \o <<"_", "0">>>>, <<name \o <<"_orig_pad_len">>>>, <<>>, NoAttrs),
       N("Concat", <<name \o <<"_targ_pad_len">>, name \o <<"_", "0">>>>, <<name \o <<"_targ_pads">>>>, <<>>, [axis |-> 0]),
       N("Concat", <<name \o <<"_orig_pad_len">>, name \o <<"_", "0">>>>, <<name \o <<"_orig_pads">>>>, <<>>, [axis |-> 0]),
       N("Pad", <<name \o <<"_targ_shape">>, name \o <<"_targ_pads">>, name \o <<"_", "1">>>>, <<name \o <<"_targ_shape_padded">>>>, <<>>, [mode |-> "constant"]),
       N("Pad", <<name \o <<"_orig_shape">>, name \o <<"_orig_pads">>, name \o <<"_", "1">>>>, <<name \o <<"_orig_shape_padded">>>>, <<>>, [mode |-> "constant"]),
       N("Equal", <<name \o <<"_targ_shape_padded">>, name \o <<"_", "0">>>>, <<name \o <<"_targ_shape_0_mask">>>>, <<>>, NoAttrs),
       N("Where", <<name \o <<"_targ_shape_0_mask">>, name \o <<"_orig_shape_padded">>, name \o <<"_targ_shape_padded">>>>, <<name \o <<"_targ_shape_new">>>>, <<>>, NoAttrs),
       N("Shape", <<name \o <<"_targ_shape_new">>>>, <<name \o <<"_targ_new_dim">>>>, <<>>, NoAttrs),
       N("Slice", <<name \o <<"_targ_shape_new">>, name \o <<"_targ_pad_len">>, name \o <<"_targ_new_dim">>>>, <<name \o <<"_targ_shape_final">>>>, <<>>, NoAttrs),
       N("Reshape", <<input, name \o <<"_targ_shape_final">>>>, <<name>>, name, NoAttrs) >>

\* convert_reshape, reverse branch (lines 1600-1630): the target shape is
\* aligned with the input shape from the right
reshape_reverse_nodes(name, input) ==
    << create_tensor(<<R(0)>>, name \o <<"_", "0">>, "int64"),
       create_tensor(<<R(1)>>, name \o <<"_", "1">>, "int64"),
       N("Shape", <<name \o <<"_targ_shape">>>>, <<name \o <<"_targ_dim">>>>, <<>>, NoAttrs),
       N("Shape", <<input>>, <<name \o <<"_orig_shape">>>>, <<>>, NoAttrs),
       N("Shape", <<name \o <<"_orig_shape">>>>, <<name \o <<"_orig_dim">>>>, <<>>, NoAttrs),
       N("Sub", <<name \o <<"_targ_dim">>, name \o <<"_orig_dim">>>>, <<name \o <<"_dim_diff">>>>, <<>>, NoAttrs),
       N("Abs", <<name \o <<"_dim_diff">>>>, <<name \o <<"_pad_len">>>>, <<>>, NoAttrs),
       N("Less", <<name \o <<"_targ_dim">>, name \o <<"_orig_dim">>>>, <<name \o <<"_targ_less_orig">>>>, <<>>, NoAttrs),
       N("Less", <<name \o <<"_orig_dim">>, name \o <<"_targ_dim">>>>, <<name \o <<"_orig_less_targ">>>>, <<>>, NoAttrs),
       N("Where", <<name \o <<"_targ_less_orig">>, name \o <<"_pad_len">>, name \o <<"_", "0">>>>, <<name \o <<"_targ_pad_len">>>>, <<>>, NoAttrs),
       N("Where", <<name \o <<"_orig_less_targ">>, name \o <<"_pad_len">>, name \o <<"_", "0">>>>, <<name \o <<"_orig_pad_len">>>>, <<>>, NoAttrs),
       N("Concat", <<name \o <<"_targ_pad_len">>, name \o <<"_", "0">>>>, <<name \o <<"_targ_pads">>>>, <<>>, [axis |-> 0]),
       N("Concat", <<name \o <<"_orig_pad_len">>, name \o <<"_", "0">>>>, <<name \o <<"_orig_pads">>>>, <<>>, [axis |-> 0]),
       N("Pad", <<name \o <<"_targ_shape">>, name \o <<"_targ_pads">>, name \o <<"_", "1">>>>, <<name \o <<"_targ_shape_padded">>>>, <<>>, [mode |-> "constant"]),
       N("Pad", <<name \o <<"_orig_shape">>, name \o <<"_orig_pads">>, name \o <<"_", "1">>>>, <<name \o <<"_orig_shape_padded">>>>, <<>>, [mode |-> "constant"]),
       N("Equal", <<name \o <<"_targ_shape_padded">>, name \o <<"_", "0">>>>, <<name \o <<"_targ_shape_0_mask">>>>, <<>>, NoAttrs),
       N("Where", <<name \o <<"_targ_shape_0_mask">>, name \o <<"_orig_shape_padded">>, name \o <<"_targ_shape_padded">>>>, <<name \o <<"_targ_shape_new">>>>, <<>>, NoAttrs),
       N("Shape", <<name \o <<"_targ_shape_new">>>>, <<name \o <<"_targ_new_dim">>>>, <<>>, NoAttrs),
       N("Slice", <<name \o <<"_targ_shape_new">>, name \o <<"_targ_pad_len">>, name \o <<"_targ_new_dim">>>>, <<name \o <<"_targ_shape_final">>>>, <<>>, NoAttrs),
       N("Reshape", <<input, name \o <<"_targ_shape_final">>>>, <<name>>, name, NoAttrs) >>

\* @mx_op.register("Reshape")
convert_reshape(node, kw) ==
    LET name == node.name
        input_nodes == InputNodes(node, kw)
        attrs == node.attrs
        reverse == Get(attrs, "reverse", "False")
        targ_shape == convert_string_to_list(attrs["shape"])
        not_supported_shape == {-2, -3, -4}
        nodes == << create_tensor(T(targ_shape), name \o <<"_targ_shape">>, "int64") >>
    IN  IF \E i \in DOMAIN targ_shape : targ_shape[i] \in not_supported_shape
        THEN Raise(<<>>, "AttributeError")
        ELSE IF reverse = "False"
        THEN Ok(nodes \o << N("Reshape", <<input_nodes[1], name \o <<"_targ_shape">>>>, <<name>>, name, NoAttrs) >>)
        ELSE Ok(nodes \o reshape_reverse_nodes(name, input_nodes[1]))

\* @mx_op.register("SliceChannel")
convert_slice_channel(node, kw) ==
    LET name == node.name
        input_nodes == InputNodes(node, kw)
        attrs == node.attrs
        num_outputs == attrs["num_outputs"]
        axis == Get(attrs, "axis", 1)
        squeeze_axis == Get(attrs, "squeeze_axis", 0)
    IN  IF ~Has(attrs, "num_outputs") THEN Raise(<<>>, "TypeError")
        ELSE IF squeeze_axis = 1 /\ num_outputs = 1
        THEN Ok(<< N("Squeeze", input_nodes, <<name>>, name, [axes |-> <<axis>>]) >>)
        ELSE IF squeeze_axis = 0 /\ num_outputs > 1
        THEN LET in_shape == kw.in_shape[1]
             IN  IF ~PyIn(in_shape, axis) THEN Raise(<<>>, "IndexError")
                 ELSE LET split == PyAt(in_shape, axis) \div num_outputs
                      IN  Ok(<< N("Split", input_nodes,
                                  [i \in 1..num_outputs |-> name \o <<"_output", Str(i - 1)>>],
                                  name,
                                  [axis |-> axis, split |-> [i \in 1..num_outputs |-> split]]) >>)
        ELSE Raise(<<>>, "NotImplementedError")

\* convert_square that returns the Pow node before the constant it reads
convert_square_late_const(node, kw) ==
    LET name == node.name
        power2_name == <<"square_tensor", Str(kw.idx)>>
        input_nodes == Append(InputNodes(node, kw), power2_name)
    IN  Ok(<< N("Pow", input_nodes, <<name>>, name, NoAttrs),
              I(power2_name, <<R(2)>>, "int64", <<1>>) >>)

\* @mx_op.register("square")
convert_square(node, kw) ==
    LET gi == get_inputs(node, kw)
        name == gi.name
        power2_name == <<"square_tensor", Str(kw.idx)>>
        ap == input_nodes_append(gi, node, power2_name)
    IN  WithNode(Ok(<< I(power2_name, <<R(2)>>, "int64", <<1>>),
                       N("Pow", ap.input_nodes, <<name>>, name, NoAttrs) >>), ap.node)

\* @mx_op.register("tile")
convert_tile(node, kw) ==
    LET gi == get_inputs(node, kw)
        name == gi.name
        attrs == gi.attrs
    IN  IF ~Has(attrs, "reps") THEN Raise(<<>>, "KeyError")
        ELSE IF ListValueError(attrs["reps"]) THEN Raise(<<>>, "ValueError")
        ELSE LET reps_list == convert_string_to_list(attrs["reps"])
                 output_shape_name == <<"reps_attr_tensor", Str(kw.idx)>>
                 ap == input_nodes_append(gi, node, output_shape_name)
             IN  IF NoneVal \in Range(reps_list) THEN Raise(<<>>, "TypeError")
                 ELSE WithNode(Ok(<< I(output_shape_name, T(reps_list), "int64", <<Len(reps_list)>>),
                                     N("Tile", ap.input_nodes, <<name>>, name, NoAttrs) >>),
                               ap.node)

\* @mx_op.register("broadcast_to")
convert_broadcast_to(node, kw) ==
    LET gi == get_inputs(node, kw)
        name == gi.name
        attrs == gi.attrs
    IN  IF ~Has(attrs, "shape") THEN Raise(<<>>, "KeyError")
        ELSE IF ListValueError(attrs["shape"]) THEN Raise(<<>>, "ValueError")
        ELSE LET shape_list == convert_string_to_list(attrs["shape"])
                 output_shape_name == <<"expand_attr_tensor", Str(kw.idx)>>
                 ap == input_nodes_append(gi, node, output_shape_name)
             IN  IF NoneVal \in Range(shape_list) THEN Raise(<<>>, "TypeError")
                 ELSE WithNode(Ok(<< I(output_shape_name, T(shape_list), "int64", <<Len(shape_list)>>),
                                     N("Expand", ap.input_nodes, <<name>>, name, NoAttrs) >>),
                               ap.node)

\* @mx_op.register("topk")
convert_topk(node, kw) ==
    LET name == node.name
        input_nodes == InputNodes(node, kw)
        attrs == node.attrs
        axis == Get(attrs, "axis", -1)
        k == Get(attrs, "k", 1)
        ret_type == Get(attrs, "ret_typ", "")
        outputs == <<name, name \o <<"_output", "1">>>>
    IN  IF ret_type # "both" THEN Raise(<<>>, "NotImplementedError")
        ELSE IF kw.opset_version >= 10
        THEN Ok(<< create_const_scalar_node(name \o <<"_k">>, R(k), "int64"),
                   N("TopK", <<input_nodes[1], name \o <<"_k">>>>, outputs, name, [axis |-> axis]) >>)
        ELSE Ok(<< N("TopK", input_nodes, outputs, name, [axis |-> axis, k |-> k]) >>)

\* @mx_op.register("slice_like")
convert_slice_like(node, kw) ==
    LET name == node.name
        input_nodes == InputNodes(node, kw)
        axes == Get(node.attrs, "axes", "None")
        zero == [name |-> name \o <<"_zero">>, dtype |-> "int64", dims |-> <<1>>, val |-> <<R(0)>>]
    IN  IF axes # "None" THEN Raise(<<>>, "UnboundLocalError")
        ELSE Ok(<< N("Shape", <<input_nodes[2]>>, <<name \o <<"_shape">>>>, <<>>, NoAttrs),
                 N("Shape", <<name \o <<"_shape">>>>, <<name \o <<"_shape", "2">>>>, <<>>, NoAttrs),
                 N("ConstantOfShape", <<name \o <<"_shape", "2">>>>, <<name \o <<"_starts">>>>, <<>>, [value |-> zero]),
                 N("Slice", <<input_nodes[1], name \o <<"_starts">>, name \o <<"_shape">>>>, <<name>>, name, NoAttrs) >>)

\* @mx_op.register("_contrib_arange_like")
convert_arange_like(node, kw) ==
    LET name == node.name
        input_nodes == InputNodes(node, kw)
        attrs == node.attrs
        input_type == kw.in_type
        dtype == input_type
        axis == Get(attrs, "axis", NoneVal)
        start == Get(attrs, "start", R(0))
        step == Get(attrs, "step", R(1))
        repeat == Get(attrs, "repeat", 1)
        nodes == << create_const_scalar_node(name \o <<"_start">>, start, dtype),
                    create_const_scalar_node(name \o <<"_step">>, step, dtype),
                    create_const_scalar_node(name \o <<"_half_step">>, VMul(step, <<1, 2>>), dtype),
                    create_tensor(<<>>, name \o <<"_void">>, "int64") >>
    IN  IF kw.opset_version < 11 THEN Raise(<<>>, OpsetError)
        ELSE IF repeat # 1 THEN Raise(<<>>, "NotImplementedError")
        ELSE IF axis = NoneVal
        THEN Ok(nodes \o
                << N("Shape", <<input_nodes[1]>>, <<name \o <<"_shape0_out">>>>, <<>>, NoAttrs),
                      N("ReduceProd", <<name \o <<"_shape0_out">>>>, <<name \o <<"_redprod0_out">>>>, <<>>, NoAttrs),
                      N("Reshape", <<name \o <<"_redprod0_out">>, name \o <<"_void">>>>, <<name \o <<"_reshape0_out">>>>, <<>>, NoAttrs),
                      N("Cast", <<name \o <<"_reshape0_out">>>>, <<name \o <<"_cast0_out">>>>, <<>>, [to |-> input_type]),
                      N("Mul", <<name \o <<"_cast0_out">>, name \o <<"_step">>>>, <<name \o <<"_mul0_out">>>>, <<>>, NoAttrs),
                      N("Add", <<name \o <<"_mul0_out">>, name \o <<"_start">>>>, <<name \o <<"_add1_out">>>>, <<>>, NoAttrs),
                      N("Sub", <<name \o <<"_add1_out">>, name \o <<"_half_step">>>>, <<name \o <<"_sub0_out">>>>, <<>>, NoAttrs),
                      N("Range", <<name \o <<"_start">>, name \o <<"_sub0_out">>, name \o <<"_step">>>>, <<name \o <<"_range0_out">>>>, <<>>, NoAttrs),
                      N("Reshape", <<name \o <<"_range0_out">>, name \o <<"_shape0_out">>>>, <<name>>, name, NoAttrs) >>)
        ELSE Ok(nodes \o
                << create_tensor(<<R(axis)>>, name \o <<"_axis_start">>, "int64"),
                      create_tensor(<<R(axis + 1)>>, name \o <<"_axis_end">>, "int64"),
                      N("Shape", <<input_nodes[1]>>, <<name \o <<"_shape0_out">>>>, <<>>, NoAttrs),
                      N("Slice", <<name \o <<"_shape0_out">>, name \o <<"_axis_start">>, name \o <<"_axis_end">>>>, <<name \o <<"_slice0_out">>>>, <<>>, NoAttrs),
                      N("ReduceProd", <<name \o <<"_slice0_out">>>>, <<name \o <<"_reprod0_out">>>>, <<>>, NoAttrs),
                      N("Reshape", <<name \o <<"_reprod0_out">>, name \o <<"_void">>>>, <<name \o <<"_reshape0_out">>>>, <<>>, NoAttrs),
                      N("Cast", <<name \o <<"_reshape0_out">>>>, <<name \o <<"_cast0_out">>>>, <<>>, [to |-> input_type]),
                      N("Mul", <<name \o <<"_cast0_out">>, name \o <<"_step">>>>, <<name \o <<"_mul0_out">>>>, <<>>, NoAttrs),
                      N("Add", <<name \o <<"_mul0_out">>, name \o <<"_start">>>>, <<name \o <<"_add1_out">>>>, <<>>, NoAttrs),
                      N("Sub", <<name \o <<"_add1_out">>, name \o <<"_half_step">>>>, <<name \o <<"_sub0_out">>>>, <<>>, NoAttrs),
                      N("Range", <<name \o <<"_start">>, name \o <<"_sub0_out">>, name \o <<"_step">>>>, <<name>>, name, NoAttrs) >>)

\* @mx_op.register("_contrib_BilinearResize2D")
convert_contrib_BilinearResize2D(node, kw) ==
    LET name == node.name
        input_nodes == InputNodes(node, kw)
        attrs == node.attrs
        height == Get(attrs, "height", 0)
        width == Get(attrs, "width", 0)
        scale_height == Get(attrs, "scale_height", 0)
        scale_width == Get(attrs, "scale_width", 0)
        mode == Get(attrs, "mode", "size")
        nodes == << create_tensor(<<>>, name \o <<"_roi">>, "float32") >>
    IN  IF kw.opset_version < 11 THEN Raise(<<>>, OpsetError)
        ELSE IF height * width = 0 /\ scale_height * scale_width = 0
        THEN Raise(<<>>, "AttributeError: height, width or scale_height, scale_width cannot be 0")
        ELSE IF mode # "size" THEN Raise(<<>>, "NotImplementedError")
        ELSE IF scale_height = 0
        THEN Ok(nodes \o
                << create_tensor(<<R(0)>>, name \o <<"_", "0">>, "int64"),
                      create_tensor(<<R(2)>>, name \o <<"_", "2">>, "int64"),
                      create_tensor(<<R(height), R(width)>>, name \o <<"_h_w">>, "int64"),
                      N("Shape", <<input_nodes[1]>>, <<name \o <<"_shape">>>>, <<>>, NoAttrs),
                      N("Slice", <<name \o <<"_shape">>, name \o <<"_", "0">>, name \o <<"_", "2">>>>, <<name \o <<"_shape_", "01">>>>, <<>>, NoAttrs),
                      N("Concat", <<name \o <<"_shape_", "01">>, name \o <<"_h_w">>>>, <<name \o <<"_new_shape">>>>, <<>>, [axis |-> 0]),
                      N("Cast", <<name \o <<"_shape">>>>, <<name \o <<"_shape_f">>>>, <<>>, [to |-> "FLOAT"]),
                      N("Cast", <<name \o <<"_new_shape">>>>, <<name \o <<"_new_shape_f">>>>, <<>>, [to |-> "FLOAT"]),
                      N("Div", <<name \o <<"_new_shape_f">>, name \o <<"_shape_f">>>>, <<name \o <<"_scales">>>>, <<>>, NoAttrs),
                      N("Resize", <<input_nodes[1], name \o <<"_roi">>, name \o <<"_scales">>>>, <<name>>, name, [mode |-> "linear", coordinate_transformation_mode |-> "align_corners"]) >>)
        ELSE Ok(nodes \o
                << create_tensor(<<R(1), R(1), R(scale_height), R(scale_width)>>, name \o <<"_scales">>, "float32"),
                      N("Resize", <<input_nodes[1], name \o <<"_roi">>, name \o <<"_scales">>>>, <<name>>, name, [mode |-> "linear", coordinate_transformation_mode |-> "align_corners"]) >>)

\* convert_arange that checks the opset after building its constants
convert_arange_late_check(node, kw) ==
    LET name == node.name
        attrs == node.attrs
        start == Get(attrs, "start", R(0))
        stop == Get(attrs, "stop", NaN)
        step == Get(attrs, "step", R(1))
        dtype == Get(attrs, "dtype", "float32")
        nodes == << create_const_scalar_node(name \o <<"_start">>, start, dtype),
                    create_const_scalar_node(name \o <<"_stop">>, stop, dtype),
                    create_const_scalar_node(name \o <<"_step">>, step, dtype) >>
    IN  IF kw.opset_version < 11 THEN Raise(nodes, OpsetError)
        ELSE Ok(nodes \o
                << N("Range", <<name \o <<"_start">>, name \o <<"_stop">>, name \o <<"_step">>>>,
                     <<name>>, name, NoAttrs) >>)

\* @mx_op.register("_arange")
convert_arange(node, kw) ==
    LET name == node.name
        attrs == node.attrs
        start == Get(attrs, "start", R(0))
        stop == Get(attrs, "stop", NaN)
        step == Get(attrs, "step", R(1))
        dtype == Get(attrs, "dtype", "float32")
        repeat == Get(attrs, "repeat", 1)
    IN  IF kw.opset_version < 11 THEN Raise(<<>>, OpsetError)
        ELSE IF repeat # 1 THEN Raise(<<>>, "NotImplementedError")
        ELSE Ok(<< create_const_scalar_node(name \o <<"_start">>, start, dtype),
                 create_const_scalar_node(name \o <<"_stop">>, stop, dtype),
                 create_const_scalar_node(name \o <<"_step">>, step, dtype),
                 N("Range", <<name \o <<"_start">>, name \o <<"_stop">>, name \o <<"_step">>>>, <<name>>, name, NoAttrs) >>)

\* @mx_op.register("repeat")
convert_repeat(node, kw) ==
    LET name == node.name
        input_nodes == InputNodes(node, kw)
        attrs == node.attrs
        repeats == Get(attrs, "repeats", 1)
        axis == Get(attrs, "axis", NoneVal)
    IN  IF kw.opset_version < 11 THEN Raise(<<>>, OpsetError)
        ELSE IF repeats <= 0 THEN Raise(<<>>, "NotImplementedError")
        ELSE IF axis = NoneVal
        THEN Ok(<< create_tensor(<<R(repeats)>>, name \o <<"_rep">>, "int64"),
                 create_tensor(<<R(1), R(repeats)>>, name \o <<"_repeats">>, "int64"),
                 N("Shape", <<input_nodes[1]>>, <<name \o <<"_shape">>>>, <<>>, NoAttrs),
                 N("ReduceProd", <<name \o <<"_shape">>>>, <<name \o <<"_size">>>>, <<>>, NoAttrs),
                 N("Reshape", <<input_nodes[1], name \o <<"_size">>>>, <<name \o <<"_flat">>>>, <<>>, NoAttrs),
                 N("Unsqueeze", <<name \o <<"_flat">>>>, <<name \o <<"_unsqueeze">>>>, <<>>, [axes |-> <<-1>>]),
                 N("Tile", <<name \o <<"_unsqueeze">>, name \o <<"_repeats">>>>, <<name \o <<"_tile">>>>, <<>>, NoAttrs),
                 N("Mul", <<name \o <<"_size">>, name \o <<"_rep">>>>, <<name \o <<"_new_size">>>>, <<>>, NoAttrs),
                 N("Reshape", <<name \o <<"_tile">>, name \o <<"_new_size">>>>, <<name>>, name, NoAttrs) >>)
        ELSE Ok(LET repeats_m1 == repeats - 1
                IN  << create_tensor(<<R(repeats_m1)>>, name \o <<"_repeats">>, "int64"),
                          create_tensor(<<R(1)>>, name \o <<"_", "1">>, "int64"),
                          create_tensor(<<R(0)>>, name \o <<"_", "0">>, "int64"),
                          create_tensor(<<>>, name \o <<"_void">>, "int64"),
                          create_tensor(<<R(axis)>>, name \o <<"_axis">>, "int64"),
                          N("Shape", <<input_nodes[1]>>, <<name \o <<"_shape">>>>, <<>>, NoAttrs),
                          N("Shape", <<name \o <<"_shape">>>>, <<name \o <<"_dim">>>>, <<>>, NoAttrs),
                          N("Reshape", <<name \o <<"_dim">>, name \o <<"_void">>>>, <<name \o <<"_dim_s">>>>, <<>>, NoAttrs),
                          N("Range", <<name \o <<"_", "0">>, name \o <<"_dim_s">>, name \o <<"_", "1">>>>, <<name \o <<"_range">>>>, <<>>, NoAttrs) >>
                \o (IF axis < 0
                    THEN << N("Add", <<name \o <<"_axis">>, name \o <<"_dim">>>>, <<name \o <<"_true_axis">>>>, <<>>, NoAttrs),
                               N("Equal", <<name \o <<"_range">>, name \o <<"_true_axis">>>>, <<name \o <<"_one_hot">>>>, <<>>, NoAttrs) >>
                    ELSE << N("Equal", <<name \o <<"_range">>, name \o <<"_axis">>>>, <<name \o <<"_one_hot">>>>, <<>>, NoAttrs) >>)
                \o << N("Cast", <<name \o <<"_one_hot">>>>, <<name \o <<"_one_hot_int">>>>, <<>>, [to |-> "INT64"]),
                         N("Mul", <<name \o <<"_repeats">>, name \o <<"_one_hot_int">>>>, <<name \o <<"_mul">>>>, <<>>, NoAttrs),
                         N("Add", <<name \o <<"_mul">>, name \o <<"_", "1">>>>, <<name \o <<"_add">>>>, <<>>, NoAttrs),
                         N("Concat", <<name \o <<"_", "1">>, name \o <<"_add">>>>, <<name \o <<"_repeats_tensor">>>>, <<>>, [axis |-> 0]) >>
                \o (IF axis = -1
                    THEN << N("Concat", <<name \o <<"_shape">>, name \o <<"_", "1">>>>, <<name \o <<"_unsqueeze_shape">>>>, <<>>, [axis |-> 0]),
                               N("Reshape", <<input_nodes[1], name \o <<"_unsqueeze_shape">>>>, <<name \o <<"_unsqueeze">>>>, <<>>, NoAttrs) >>
                    ELSE << N("Unsqueeze", <<input_nodes[1]>>, <<name \o <<"_unsqueeze">>>>, <<>>, [axes |-> <<axis + 1>>]) >>)
                \o << N("Tile", <<name \o <<"_unsqueeze">>, name \o <<"_repeats_tensor">>>>, <<name \o <<"_tile">>>>, <<>>, NoAttrs),
                         N("Mul", <<name \o <<"_shape">>, name \o <<"_add">>>>, <<name \o <<"_new_shape">>>>, <<>>, NoAttrs),
                         N("Reshape", <<name \o <<"_tile">>, name \o <<"_new_shape">>>>, <<name>>, name, NoAttrs) >>)

\* @mx_op.register("LayerNorm")
convert_layer_norm(node, kw) ==
    LET name == node.name
        input_nodes == InputNodes(node, kw)
        attrs == node.attrs
        axes == Get(attrs, "axis", -1)
        eps == Get(attrs, "eps", <<1, 100000>>)
        nodes == << create_tensor(<<R(axes)>>, name \o <<"_axes">>, "int64"),
                    create_tensor(<<R(axes + 1)>>, name \o <<"_axes+", "1">>, "int64"),
                    create_tensor(<<>>, name \o <<"_void">>, "int64"),
                    create_const_scalar_node(name \o <<"_0_s">>, R(0), "int64"),
                    create_const_scalar_node(name \o <<"_1_s">>, R(1), "int64"),
                    create_const_scalar_node(name \o <<"_2_s">>, R(2), "int64"),
                    create_const_scalar_node(name \o <<"_eps">>, eps, "float32"),
                    N("ReduceMean", <<input_nodes[1]>>, <<name \o <<"_rm0_out">>>>, <<>>, [axes |-> <<axes>>]),
                    N("Sub", <<input_nodes[1], name \o <<"_rm0_out">>>>, <<name \o <<"_sub0_out">>>>, <<>>, NoAttrs),
                    N("Pow", <<name \o <<"_sub0_out">>, name \o <<"_2_s">>>>, <<name \o <<"_pow0_out">>>>, <<>>, NoAttrs),
                    N("ReduceMean", <<name \o <<"_pow0_out">>>>, <<name \o <<"_rm1_out">>>>, <<>>, [axes |-> <<axes>>]),
                    N("Add", <<name \o <<"_rm1_out">>, name \o <<"_eps">>>>, <<name \o <<"_add0_out">>>>, <<>>, NoAttrs),
                    N("Sqrt", <<name \o <<"_add0_out">>>>, <<name \o <<"_sqrt0_out">>>>, <<>>, NoAttrs),
                    N("Div", <<name \o <<"_sub0_out">>, name \o <<"_sqrt0_out">>>>, <<name \o <<"_div0_out">>>>, <<>>, NoAttrs) >>
    IN  IF axes = -1
        THEN Ok(nodes \o
                << N("Mul", <<name \o <<"_div0_out">>, input_nodes[2]>>, <<name \o <<"_mul0_out">>>>, <<>>, NoAttrs),
                      N("Add", <<name \o <<"_mul0_out">>, input_nodes[3]>>, <<name>>, name, NoAttrs) >>)
        ELSE Ok(nodes \o
                << N("Shape", <<input_nodes[1]>>, <<name \o <<"_shape0_out">>>>, <<>>, NoAttrs),
                      N("Shape", <<name \o <<"_shape0_out">>>>, <<name \o <<"_in_dim">>>>, <<>>, NoAttrs),
                      N("Reshape", <<name \o <<"_in_dim">>, name \o <<"_void">>>>, <<name \o <<"_in_dim_s">>>>, <<>>, NoAttrs),
                      N("Range", <<name \o <<"_0_s">>, name \o <<"_in_dim_s">>, name \o <<"_1_s">>>>, <<name \o <<"_range">>>>, <<>>, NoAttrs),
                      N("Equal", <<name \o <<"_range">>, name \o <<"_axes">>>>, <<name \o <<"_equal">>>>, <<>>, NoAttrs),
                      N("Cast", <<name \o <<"_equal">>>>, <<name \o <<"_one_hot">>>>, <<>>, [to |-> "INT64"]),
                      N("Slice", <<name \o <<"_shape0_out">>, name \o <<"_axes">>, name \o <<"_axes+", "1">>>>, <<name \o <<"_slice_out">>>>, <<>>, NoAttrs),
                      N("Reshape", <<name \o <<"_slice_out">>, name \o <<"_void">>>>, <<name \o <<"_slice_out_s">>>>, <<>>, NoAttrs),
                      N("Sub", <<name \o <<"_slice_out_s">>, name \o <<"_1_s">>>>, <<name \o <<"_sub1_out">>>>, <<>>, NoAttrs),
                      N("Mul", <<name \o <<"_one_hot">>, name \o <<"_sub1_out">>>>, <<name \o <<"_mul0_out">>>>, <<>>, NoAttrs),
                      N("Add", <<name \o <<"_mul0_out">>, name \o <<"_1_s">>>>, <<name \o <<"_add1_out">>>>, <<>>, NoAttrs),
                      N("Reshape", <<input_nodes[2], name \o <<"_add1_out">>>>, <<name \o <<"gamma_exp">>>>, <<>>, NoAttrs),
                      N("Reshape", <<input_nodes[3], name \o <<"_add1_out">>>>, <<name \o <<"beta_exp">>>>, <<>>, NoAttrs),
                      N("Expand", <<name \o <<"gamma_exp">>, name \o <<"_shape0_out">>>>, <<name \o <<"gamma_exp", "1">>>>, <<>>, NoAttrs),
                      N("Expand", <<name \o <<"beta_exp">>, name \o <<"_shape0_out">>>>, <<name \o <<"beta_exp", "1">>>>, <<>>, NoAttrs),
                      N("Mul", <<name \o <<"_div0_out">>, name \o <<"gamma_exp", "1">>>>, <<name \o <<"_mul1_out">>>>, <<>>, NoAttrs),
                      N("Add", <<name \o <<"_mul1_out">>, name \o <<"beta_exp", "1">>>>, <<name>>, name, NoAttrs) >>)

\* the body of the loop of convert_broadcast_axis from position i (0-based) on,
\* followed by the final Expand node
RECURSIVE BroadcastAxisLoop(_, _, _, _, _, _)
BroadcastAxisLoop(name, input_nodes, axes, size, i, shape_name) ==
    IF i >= Len(axes)
    THEN << N("Expand", <<input_nodes[1], shape_name>>, <<name>>, name, NoAttrs) >>
    ELSE LET axis == axes[i + 1]
         IN  (IF axis \notin {0, 1}
              THEN << create_tensor(<<R(axis)>>, name \o <<"_">> \o <<Str(axis)>>, "int64") >>
              ELSE <<>>)
             \o << create_tensor(<<R(size[i + 1] - 1)>>, name \o <<"_size_">> \o <<Str(i)>>, "int64"),
                      N("Equal", <<name \o <<"_range">>, name \o <<"_">> \o <<Str(axis)>>>>, <<name \o <<"_equal_">> \o <<Str(i)>>>>, <<>>, NoAttrs),
                      N("Cast", <<name \o <<"_equal_">> \o <<Str(i)>>>>, <<name \o <<"_cast_">> \o <<Str(i)>>>>, <<>>, [to |-> "INT64"]),
                      N("Mul", <<name \o <<"_size_">> \o <<Str(i)>>, name \o <<"_cast_">> \o <<Str(i)>>>>, <<name \o <<"_mul_">> \o <<Str(i)>>>>, <<>>, NoAttrs),
                      N("Add", <<name \o <<"_mul_">> \o <<Str(i)>>, name \o <<"_", "1">>>>, <<name \o <<"_add_">> \o <<Str(i)>>>>, <<>>, NoAttrs),
                      N("Mul", <<name \o <<"_add_">> \o <<Str(i)>>, shape_name>>, <<name \o <<"_shape_">> \o <<Str(i + 1)>>>>, <<>>, NoAttrs) >>
             \o BroadcastAxisLoop(name, input_nodes, axes, size, i + 1,
                                  name \o <<"_shape_">> \o <<Str(i + 1)>>)

\* @mx_op.register("broadcast_axis")
convert_broadcast_axis(node, kw) ==
    LET name == node.name
        input_nodes == InputNodes(node, kw)
        attrs == node.attrs
        axis == convert_string_to_list(Get(attrs, "axis", <<"(", ")">>))
        size == convert_string_to_list(Get(attrs, "size", <<"(", ")">>))
        shape_name == name \o <<"_shape_", "0">>
    IN  IF Len(axis) # Len(size) THEN Raise(<<>>, "AssertionError")
        ELSE Ok(<< create_tensor(<<R(0)>>, name \o <<"_", "0">>, "int64"),
                 create_tensor(<<R(1)>>, name \o <<"_", "1">>, "int64"),
                 create_tensor(<<>>, name \o <<"_void">>, "int64"),
                 create_const_scalar_node(name \o <<"_0_s">>, R(0), "int64"),
                 create_const_scalar_node(name \o <<"_1_s">>, R(1), "int64"),
                 N("Shape", <<input_nodes[1]>>, <<shape_name>>, <<>>, NoAttrs),
                 N("Shape", <<shape_name>>, <<name \o <<"_in_dim">>>>, <<>>, NoAttrs),
                 N("Reshape", <<name \o <<"_in_dim">>, name \o <<"_void">>>>, <<name \o <<"_in_dim_s">>>>, <<>>, NoAttrs),
                 N("Range", <<name \o <<"_0_s">>, name \o <<"_in_dim_s">>, name \o <<"_1_s">>>>, <<name \o <<"_range">>>>, <<>>, NoAttrs) >>
                \o BroadcastAxisLoop(name, input_nodes, axis, size, 0, shape_name))

\* @mx_op.register("reverse")
convert_reverse(node, kw) ==
    LET name == node.name
        input_nodes == InputNodes(node, kw)
        axis == Get(node.attrs, "axis", 0)
        at == IF axis >= 0 THEN axis ELSE axis + 10
        perm == [i \in 1..10 |-> IF i - 1 = at THEN 0 ELSE IF i = 1 THEN axis ELSE i - 1]
    IN  IF at \notin 0..9 THEN Raise(<<>>, "IndexError")
        ELSE Ok(<< create_tensor(<<R(10)>>, name \o <<"_", "10">>, "int64"),
                 create_tensor(<<R(0)>>, name \o <<"_", "0">>, "int64"),
                 create_tensor(<<R(1)>>, name \o <<"_", "1">>, "int64"),
                 create_tensor(<<R(-1)>>, name \o <<"_m", "1">>, "int64"),
                 create_tensor(<<R(axis)>>, name \o <<"_axis">>, "int64"),
                 create_tensor(<<R(axis + 1)>>, name \o <<"_axis_p", "1">>, "int64"),
                 create_tensor(<<>>, name \o <<"_void">>, "int64"),
                 create_const_scalar_node(name \o <<"_m1_s">>, R(-1), "int64"),
                 N("Shape", <<input_nodes[1]>>, <<name \o <<"_shape">>>>, <<>>, NoAttrs),
                 N("Shape", <<name \o <<"_shape">>>>, <<name \o <<"_dim">>>>, <<>>, NoAttrs),
                 N("Sub", <<name \o <<"_", "10">>, name \o <<"_dim">>>>, <<name \o <<"_sub">>>>, <<>>, NoAttrs),
                 N("Concat", <<name \o <<"_", "0">>, name \o <<"_sub">>>>, <<name \o <<"_concat">>>>, <<>>, [axis |-> 0]),
                 N("Pad", <<name \o <<"_shape">>, name \o <<"_concat">>, name \o <<"_", "1">>>>, <<name \o <<"_shape_10_dim">>>>, <<>>, NoAttrs),
                 N("Reshape", <<input_nodes[1], name \o <<"_shape_10_dim">>>>, <<name \o <<"_data_10_dim">>>>, <<>>, NoAttrs),
                 N("Transpose", <<name \o <<"_data_10_dim">>>>, <<name \o <<"_data_t">>>>, <<>>, [perm |-> perm]),
                 N("Slice", <<name \o <<"_shape">>, name \o <<"_axis">>, name \o <<"_axis_p", "1">>>>, <<name \o <<"_axis_len">>>>, <<>>, NoAttrs),
                 N("Sub", <<name \o <<"_axis_len">>, name \o <<"_", "1">>>>, <<name \o <<"_axis_len_m", "1">>>>, <<>>, NoAttrs),
                 N("Reshape", <<name \o <<"_axis_len_m", "1">>, name \o <<"_void">>>>, <<name \o <<"_axis_len_m1_s">>>>, <<>>, NoAttrs),
                 N("Range", <<name \o <<"_axis_len_m1_s">>, name \o <<"_m1_s">>, name \o <<"_m1_s">>>>, <<name \o <<"_indices">>>>, <<>>, NoAttrs),
                 N("Gather", <<name \o <<"_data_t">>, name \o <<"_indices">>>>, <<name \o <<"_gather">>>>, <<>>, NoAttrs),
                 N("Transpose", <<name \o <<"_gather">>>>, <<name \o <<"_data_reversed">>>>, <<>>, [perm |-> perm]),
                 N("Reshape", <<name \o <<"_data_reversed">>, name \o <<"_shape">>>>, <<name>>, name, NoAttrs) >>)

\* @mx_op.register("SequenceMask")
convert_sequencemask(node, kw) ==
    LET name == node.name
        input_nodes == InputNodes(node, kw)
        attrs == node.attrs
        use_sequence_length == Get(attrs, "use_sequence_length", "False")
        mask_val == Get(attrs, "value", 0)
        axis == Get(attrs, "axis", 0)
        nodes == << create_tensor(<<>>, name \o <<"_void">>, "int64"),
                    create_tensor(<<R(0)>>, name \o <<"_", "0">>, "int64"),
                    create_tensor(<<R(1)>>, name \o <<"_", "1">>, "int64"),
                    create_tensor(<<R(2)>>, name \o <<"_", "2">>, "int64"),
                    create_const_scalar_node(name \o <<"_0_s">>, R(0), "int64"),
                    create_const_scalar_node(name \o <<"_1_s">>, R(1), "int64"),
                    create_const_scalar_node(name \o <<"_2_s">>, R(2), "int64"),
                    create_tensor(<<R(mask_val)>>, name \o <<"_mask_val">>, "float32"),
                    N("Shape", <<input_nodes[1]>>, <<name \o <<"_in_shape">>>>, <<>>, NoAttrs),
                    N("Slice", <<name \o <<"_in_shape">>, name \o <<"_", "0">>, name \o <<"_", "1">>>>, <<name \o <<"_slice_", "0">>>>, <<>>, NoAttrs),
                    N("Slice", <<name \o <<"_in_shape">>, name \o <<"_", "1">>, name \o <<"_", "2">>>>, <<name \o <<"_slice_", "1">>>>, <<>>, NoAttrs),
                    N("Concat", <<name \o <<"_slice_", "0">>, name \o <<"_", "1">>>>, <<name \o <<"_shape_", "0">>>>, <<>>, [axis |-> 0]),
                    N("Shape", <<name \o <<"_in_shape">>>>, <<name \o <<"_in_dim">>>>, <<>>, NoAttrs),
                    N("Reshape", <<name \o <<"_in_dim">>, name \o <<"_void">>>>, <<name \o <<"_in_dim_s">>>>, <<>>, NoAttrs),
                    N("Range", <<name \o <<"_0_s">>, name \o <<"_in_dim_s">>, name \o <<"_1_s">>>>, <<name \o <<"_range_", "0">>>>, <<>>, NoAttrs),
                    N("Less", <<name \o <<"_range_", "0">>, name \o <<"_", "2">>>>, <<name \o <<"_less_", "0">>>>, <<>>, NoAttrs),
                    N("Where", <<name \o <<"_less_", "0">>, name \o <<"_in_shape">>, name \o <<"_", "1">>>>, <<name \o <<"_shape_", "1">>>>, <<>>, NoAttrs) >>
    IN  IF use_sequence_length = "False"
        THEN Ok(<< N("Identity", <<input_nodes[1]>>, <<name>>, name, NoAttrs) >>)
        ELSE IF axis = 0
        THEN Ok(nodes \o
                << N("Reshape", <<name \o <<"_slice_", "0">>, name \o <<"_void">>>>, <<name \o <<"_max_len">>>>, <<>>, NoAttrs),
                      N("Range", <<name \o <<"_0_s">>, name \o <<"_max_len">>, name \o <<"_1_s">>>>, <<name \o <<"_range_", "1">>>>, <<>>, NoAttrs),
                      N("Reshape", <<name \o <<"_range_", "1">>, name \o <<"_shape_", "0">>>>, <<name \o <<"_reshape_", "0">>>>, <<>>, NoAttrs),
                      N("Cast", <<input_nodes[2]>>, <<name \o <<"_cast">>>>, <<>>, [to |-> "INT64"]),
                      N("Less", <<name \o <<"_reshape_", "0">>, name \o <<"_cast">>>>, <<name \o <<"_less_", "1">>>>, <<>>, NoAttrs),
                      N("Reshape", <<name \o <<"_less_", "1">>, name \o <<"_shape_", "1">>>>, <<name \o <<"_reshape_", "1">>>>, <<>>, NoAttrs),
                      N("Where", <<name \o <<"_reshape_", "1">>, input_nodes[1], name \o <<"_mask_val">>>>, <<name>>, name, NoAttrs) >>)
        ELSE Ok(nodes \o
                << N("Reshape", <<name \o <<"_slice_", "1">>, name \o <<"_void">>>>, <<name \o <<"_max_len">>>>, <<>>, NoAttrs),
                      N("Range", <<name \o <<"_0_s">>, name \o <<"_max_len">>, name \o <<"_1_s">>>>, <<name \o <<"_range_", "1">>>>, <<>>, NoAttrs),
                      N("Reshape", <<input_nodes[2], name \o <<"_shape_", "0">>>>, <<name \o <<"_reshape_", "0">>>>, <<>>, NoAttrs),
                      N("Cast", <<name \o <<"_reshape_", "0">>>>, <<name \o <<"_cast">>>>, <<>>, [to |-> "INT64"]),
                      N("Less", <<name \o <<"_range_", "1">>, name \o <<"_cast">>>>, <<name \o <<"_less_", "1">>>>, <<>>, NoAttrs),
                      N("Reshape", <<name \o <<"_less_", "1">>, name \o <<"_shape_", "1">>>>, <<name \o <<"_reshape_", "1">>>>, <<>>, NoAttrs),
                      N("Where", <<name \o <<"_reshape_", "1">>, input_nodes[1], name \o <<"_mask_val">>>>, <<name>>, name, NoAttrs) >>)

\* @mx_op.register("_contrib_box_decode")
convert_contrib_box_decode(node, kw) ==
    LET name == node.name
        input_nodes == InputNodes(node, kw)
        attrs == node.attrs
        data == input_nodes[1]
        anchors == input_nodes[2]
        input_type == kw.in_type
        fmt == Get(attrs, "format", "center")
        std0 == Get(attrs, "std0", 1)
        std1 == Get(attrs, "std1", 1)
        std2 == Get(attrs, "std2", 1)
        std3 == Get(attrs, "std3", 1)
        clip == Get(attrs, "clip", -1)
    IN  IF fmt \notin {"center", "corner"} THEN Raise(<<>>, "NotImplementedError")
        ELSE Ok(<< create_tensor(<<R(0)>>, name \o <<"_", "0">>, "int64"),
                 create_tensor(<<R(2)>>, name \o <<"_", "2">>, "int64"),
                 create_tensor(<<R(4)>>, name \o <<"_", "4">>, "int64"),
                 create_tensor(<<R(2)>>, name \o <<"_2f">>, "float32"),
                 create_tensor(<<R(clip)>>, name \o <<"_clip">>, "float32"),
                 create_tensor(<<R(std0), R(std1), R(std2), R(std3)>>, name \o <<"_std_1d">>, "float32"),
                 create_tensor(<<R(1), R(4)>>, name \o <<"_std_shape">>, "int64"),
                 N("Cast", <<data>>, <<name \o <<"_data">>>>, <<>>, [to |-> "FLOAT"]),
                 N("Cast", <<anchors>>, <<name \o <<"_anchors">>>>, <<>>, [to |-> "FLOAT"]),
                 N("Reshape", <<name \o <<"_std_1d">>, name \o <<"_std_shape">>>>, <<name \o <<"_std">>>>, <<>>, NoAttrs),
                 N("Mul", <<name \o <<"_data">>, name \o <<"_std">>>>, <<name \o <<"_mul0_out">>>>, <<>>, NoAttrs),
                 N("Slice", <<name \o <<"_mul0_out">>, name \o <<"_", "0">>, name \o <<"_", "2">>, name \o <<"_", "2">>>>, <<name \o <<"_data_xy">>>>, <<>>, NoAttrs),
                 N("Slice", <<name \o <<"_mul0_out">>, name \o <<"_", "2">>, name \o <<"_", "4">>, name \o <<"_", "2">>>>, <<name \o <<"_data_wh">>>>, <<>>, NoAttrs) >>
                \o (IF fmt = "corner"
                    THEN << N("Slice", <<name \o <<"_anchors">>, name \o <<"_", "0">>, name \o <<"_", "2">>, name \o <<"_", "2">>>>, <<name \o <<"_slice0_out">>>>, <<>>, NoAttrs),
                               N("Slice", <<name \o <<"_anchors">>, name \o <<"_", "2">>, name \o <<"_", "4">>, name \o <<"_", "2">>>>, <<name \o <<"_slice1_out">>>>, <<>>, NoAttrs),
                               N("Sub", <<name \o <<"_slice1_out">>, name \o <<"_slice0_out">>>>, <<name \o <<"_anchor_wh">>>>, <<>>, NoAttrs),
                               N("Div", <<name \o <<"_anchor_wh">>, name \o <<"_2f">>>>, <<name \o <<"_div0_out">>>>, <<>>, NoAttrs),
                               N("Add", <<name \o <<"_slice0_out">>, name \o <<"_div0_out">>>>, <<name \o <<"_anchor_xy">>>>, <<>>, NoAttrs) >>
                    ELSE << N("Slice", <<name \o <<"_anchors">>, name \o <<"_", "0">>, name \o <<"_", "2">>, name \o <<"_", "2">>>>, <<name \o <<"_anchor_xy">>>>, <<>>, NoAttrs),
                               N("Slice", <<name \o <<"_anchors">>, name \o <<"_", "2">>, name \o <<"_", "4">>, name \o <<"_", "2">>>>, <<name \o <<"_anchor_wh">>>>, <<>>, NoAttrs) >>)
                \o << N("Mul", <<name \o <<"_data_xy">>, name \o <<"_anchor_wh">>>>, <<name \o <<"_mul1_out">>>>, <<>>, NoAttrs),
                         N("Add", <<name \o <<"_mul1_out">>, name \o <<"_anchor_xy">>>>, <<name \o <<"_add0_out">>>>, <<>>, NoAttrs) >>
                \o (IF clip > 0
                    THEN << N("Less", <<name \o <<"_data_wh">>, name \o <<"_clip">>>>, <<name \o <<"_less0_out">>>>, <<>>, NoAttrs),
                               N("Where", <<name \o <<"_less0_out">>, name \o <<"_data_wh">>, name \o <<"_clip">>>>, <<name \o <<"_where0_out">>>>, <<>>, NoAttrs),
                               N("Exp", <<name \o <<"_where0_out">>>>, <<name \o <<"_exp0_out">>>>, <<>>, NoAttrs) >>
                    ELSE << N("Exp", <<name \o <<"_data_wh">>>>, <<name \o <<"_exp0_out">>>>, <<>>, NoAttrs) >>)
                \o << N("Mul", <<name \o <<"_exp0_out">>, name \o <<"_anchor_wh">>>>, <<name \o <<"_mul2_out">>>>, <<>>, NoAttrs),
                         N("Div", <<name \o <<"_mul2_out">>, name \o <<"_2f">>>>, <<name \o <<"_div1_out">>>>, <<>>, NoAttrs),
                         N("Sub", <<name \o <<"_add0_out">>, name \o <<"_div1_out">>>>, <<name \o <<"_sub0_out">>>>, <<>>, NoAttrs),
                         N("Add", <<name \o <<"_add0_out">>, name \o <<"_div1_out">>>>, <<name \o <<"_add1_out">>>>, <<>>, NoAttrs),
                         N("Concat", <<name \o <<"_sub0_out">>, name \o <<"_add1_out">>>>, <<name \o <<"concat0_out">>>>, <<>>, [axis |-> 2]),
                         N("Cast", <<name \o <<"concat0_out">>>>, <<name>>, name, [to |-> input_type]) >>)

\* @mx_op.register("reshape_like")
convert_reshape_like(node, kw) ==
    LET name == node.name
        input_nodes == InputNodes(node, kw)
        attrs == node.attrs
        lhs == input_nodes[1]
        rhs == input_nodes[2]
        lhs_begin == Get(attrs, "lhs_begin", 0)
        rhs_begin == Get(attrs, "rhs_begin", 0)
        lhs_end == Get(attrs, "lhs_end", NoneVal)
        rhs_end == Get(attrs, "rhs_end", NoneVal)
    IN  IF lhs_begin = NoneVal \/ rhs_begin = NoneVal THEN Raise(<<>>, "NotImplementedError")
        ELSE IF lhs_begin = 0 /\ lhs_end = NoneVal /\ rhs_begin = 0 /\ rhs_end = NoneVal
        THEN Ok(<< N("Shape", <<rhs>>, <<name \o <<"_shape_rhs">>>>, <<>>, NoAttrs),
                 N("Reshape", <<lhs, name \o <<"_shape_rhs">>>>, <<name>>, name, NoAttrs) >>)
        ELSE Ok(<< create_tensor(<<R(0)>>, name \o <<"_", "0">>, "int64"),
                 N("Shape", <<lhs>>, <<name \o <<"_lhs_shape">>>>, <<>>, NoAttrs),
                 N("Shape", <<name \o <<"_lhs_shape">>>>, <<name \o <<"_lhs_dim">>>>, <<>>, NoAttrs),
                 N("Shape", <<rhs>>, <<name \o <<"_rhs_shape">>>>, <<>>, NoAttrs),
                 N("Shape", <<name \o <<"_rhs_shape">>>>, <<name \o <<"_rhs_dim">>>>, <<>>, NoAttrs) >>
                \o (IF lhs_begin >= 0
                    THEN << create_tensor(<<R(lhs_begin)>>, name \o <<"_lhs_begin">>, "int64") >>
                    ELSE << create_tensor(<<R(lhs_begin)>>, name \o <<"_lhs_begin_neg">>, "int64"),
                               N("Add", <<name \o <<"_lhs_dim">>, name \o <<"_lhs_begin_neg">>>>, <<name \o <<"_lhs_begin">>>>, <<>>, NoAttrs) >>)
                \o (IF rhs_begin >= 0
                    THEN << create_tensor(<<R(rhs_begin)>>, name \o <<"_rhs_begin">>, "int64") >>
                    ELSE << create_tensor(<<R(rhs_begin)>>, name \o <<"_rhs_begin_neg">>, "int64"),
                               N("Add", <<name \o <<"_rhs_dim">>, name \o <<"_rhs_begin_neg">>>>, <<name \o <<"_rhs_begin">>>>, <<>>, NoAttrs) >>)
                \o (IF lhs_end = NoneVal
                    THEN << N("Add", <<name \o <<"_lhs_dim">>, name \o <<"_", "0">>>>, <<name \o <<"_lhs_end">>>>, <<>>, NoAttrs) >>
                    ELSE IF lhs_end >= 0
                    THEN << create_tensor(<<R(lhs_end)>>, name \o <<"_lhs_end">>, "int64") >>
                    ELSE << create_tensor(<<R(lhs_end)>>, name \o <<"_lhs_end_neg">>, "int64"),
                               N("Add", <<name \o <<"_lhs_dim">>, name \o <<"_lhs_end_neg">>>>, <<name \o <<"_lhs_end">>>>, <<>>, NoAttrs) >>)
                \o (IF rhs_end = NoneVal
                    THEN << N("Add", <<name \o <<"_rhs_dim">>, name \o <<"_", "0">>>>, <<name \o <<"_rhs_end">>>>, <<>>, NoAttrs) >>
                    ELSE IF rhs_end >= 0
                    THEN << create_tensor(<<R(rhs_end)>>, name \o <<"_rhs_end">>, "int64") >>
                    ELSE << create_tensor(<<R(rhs_end)>>, name \o <<"_rhs_end_neg">>, "int64"),
                               N("Add", <<name \o <<"_rhs_dim">>, name \o <<"_rhs_end_neg">>>>, <<name \o <<"_rhs_end">>>>, <<>>, NoAttrs) >>)
                \o << N("Slice", <<name \o <<"_lhs_shape">>, name \o <<"_", "0">>, name \o <<"_lhs_begin">>>>, <<name \o <<"_slice0_out">>>>, <<>>, NoAttrs),
                         N("Slice", <<name \o <<"_rhs_shape">>, name \o <<"_rhs_begin">>, name \o <<"_rhs_end">>>>, <<name \o <<"_slice1_out">>>>, <<>>, NoAttrs),
                         N("Concat", <<name \o <<"_slice0_out">>, name \o <<"_slice1_out">>>>, <<name \o <<"_concat0_out">>>>, <<>>, [axis |-> 0]),
                         N("Slice", <<name \o <<"_lhs_shape">>, name \o <<"_lhs_end">>, name \o <<"_lhs_dim">>>>, <<name \o <<"_slice2_out">>>>, <<>>, NoAttrs),
                         N("Concat", <<name \o <<"_concat0_out">>, name \o <<"_slice2_out">>>>, <<name \o <<"_concat1_out">>>>, <<>>, [axis |-> 0]),
                         N("Reshape", <<lhs, name \o <<"_concat1_out">>>>, <<name>>, name, NoAttrs) >>)

-----------------------------------------------------------------------------
(* The lowering pass *)

InType == "float32"

\* the context handed to a rule
Kw(is_input, weights, in_shape) ==
    [initializer |-> initializer, proc_nodes |-> proc_nodes, index_lookup |-> index_lookup,
     idx |-> idx, opset_version |-> opset_version, in_type |-> InType,
     is_input |-> is_input, weights |-> weights, in_shape |-> in_shape]

NoShape == <<>>

KwOp == Kw(FALSE, <<>>, NoShape)

Inits(items) == SelectSeq(items, LAMBDA it : it.kind = "init")

\* initializer.insert(0, tensor) in place of initializer.append(tensor)
initializer_insert_front(inits, items) == Inits(items) \o inits

\* the list after the initializer.append(tensor) calls of the helpers that built
\* items, in evaluation order
initializer_append(inits, items) == inits \o Inits(items)

\* source node number k (1-based) of the pass has default name n<k-1>
DefaultName == <<"n", Str(idx)>>

\* already lowered source nodes
Lowered == DOMAIN index_lookup

\* input references <<producer, output index>>
Ref(k) == <<k, 0>>

Src(name, op, inputs, attrs) ==
    [name |-> name, op |-> op, inputs |-> inputs, attrs |-> attrs]

\* what the graph walk does with the result r of the rule invoked on node
Walk(node, kw, r) ==
    /\ status = "ok"
    /\ initializer' = initializer_append(initializer, r.items)
    /\ IF r.err = ""
       THEN /\ proc_nodes' = proc_nodes \o r.items
            /\ index_lookup' = Append(index_lookup, Len(proc_nodes) + Len(r.items))
            /\ status' = "ok"
       ELSE /\ UNCHANGED <<proc_nodes, index_lookup>>
            /\ status' = "error"
    /\ last' = [node |-> node, inputs |-> InputNodes(node, kw), items |-> r.items,
                err |-> r.err, init_before |-> Len(initializer),
                nodes_before |-> Len(proc_nodes), idx |-> idx,
                node_after |-> IF "node" \in DOMAIN r THEN r.node ELSE node,
                in_shape |-> kw.in_shape]
    /\ idx' = idx + 1
    /\ UNCHANGED <<opset_version, attrs_in, parsed>>

\* one step of a pass over at most MaxNodes source nodes
Lower(node, kw, r) ==
    /\ idx < MaxNodes
    /\ Walk(node, kw, r)
    /\ UNCHANGED <<feeds, fetched>>

\* nothing is fed and nothing has been run
NoFeeds == <<>>

NotFetched == [run |-> FALSE, env |-> <<>>]

NoLast == [node |-> Src(<<>>, "", <<>>, <<>>), inputs |-> <<>>, items |-> <<>>, err |-> "",
           init_before |-> 0, nodes_before |-> 0, idx |-> -1,
           node_after |-> Src(<<>>, "", <<>>, <<>>), in_shape |-> NoShape]

Init ==
    /\ initializer = <<>>
    /\ proc_nodes = <<>>
    /\ index_lookup = <<>>
    /\ idx = 0
    /\ opset_version \in Opsets
    /\ status = "ok"
    /\ last = NoLast
    /\ attrs_in = <<>>
    /\ parsed = NotParsed
    /\ feeds = NoFeeds
    /\ fetched = NotFetched

\* the input references of a node with n inputs: the first is any lowered node,
\* the others are the first node of the graph
Ins(a, n) == SubSeq(<<Ref(a), Ref(1), Ref(1)>>, 1, n)

\* the names of null nodes: the default one, and for the first node of the
\* graph also n1_0 (the source nodes of a graph have pairwise distinct names)
NullNames == IF idx = 0 THEN {DefaultName, <<"n", "1", "_", "0">>} ELSE {DefaultName}

LowerNull ==
    \E is_input \in BOOLEAN, c \in Consts, nm \in NullNames :
        LET node == Src(nm, "null", <<>>, <<>>)
            kw == Kw(is_input, <<R(c)>>, NoShape)
        IN  Lower(node, kw, convert_weights_and_inputs(node, kw))

LowerBasic ==
    \E op \in {"relu", "elemwise_add", "add_n"}, a \in Lowered :
        LET n == CASE op = "relu" -> 1 [] op = "elemwise_add" -> 2 [] OTHER -> 3
        IN  \E attrs \in {NoAttrs, [num_args |-> n]} :
                LET node == Src(DefaultName, op, Ins(a, n), attrs)
                IN  Lower(node, KwOp, create_basic_op_node(BasicOps[op], node, KwOp))

ScalarNames == {DefaultName, <<"_rminusscalar", Str(idx)>>, <<"_rdivscalar", Str(idx)>>}

\* the rule registered for a scalar arithmetic opcode
ScalarRule(op, node, kw) ==
    CASE op = "_mul_scalar" -> convert_mul_scalar(node, kw)
      [] op = "_minus_scalar" -> convert_minus_scalar(node, kw)
      [] op = "_rminus_scalar" -> convert_rminus_scalar(node, kw)
      [] op = "_plus_scalar" -> convert_add_scalar(node, kw)
      [] op = "_div_scalar" -> convert_div_scalar(node, kw)
      [] op = "_rdiv_scalar" -> convert_rdiv_scalar(node, kw)
      [] op = "_power_scalar" -> convert_pow_scalar(node, kw)

\* every value of the constants built by r is within the modelled range
ValuesInRange(r) ==
    \A k \in DOMAIN r.items :
        r.items[k].kind = "init" => \A i \in DOMAIN r.items[k].val : InRange(r.items[k].val[i])

LowerScalar ==
    \E op \in ScalarOps, a \in Lowered, s \in Scalars, nm \in ScalarNames :
        LET node == Src(nm, op, <<Ref(a)>>, [scalar |-> s])
            r == ScalarRule(op, node, KwOp)
        IN  /\ ValuesInRange(r)
            /\ Lower(node, KwOp, r)

LowerFullyConnected ==
    \E a \in Lowered, flatten \in {"True", "False"}, no_bias \in {"True", "False"} :
        LET node == Src(DefaultName, "FullyConnected", Ins(a, IF no_bias = "True" THEN 2 ELSE 3),
                        [flatten |-> flatten, no_bias |-> no_bias, num_hidden |-> 4])
        IN  Lower(node, KwOp, convert_fully_connected(node, KwOp))

LowerPad ==
    \E a \in Lowered, mode \in {"constant", "edge"} :
        LET node == Src(DefaultName, "Pad", Ins(a, 1),
                        [mode |-> mode,
                         pad_width |-> <<"(", "0", ",", "1", ",", "2", ",", "3", ")">>])
        IN  Lower(node, KwOp, convert_pad(node, KwOp))

LowerDot ==
    \E a \in Lowered, attrs \in {<<>>, [transpose_a |-> "True"], [transpose_b |-> "True"],
                                 [transpose_a |-> "True", transpose_b |-> "True"]} :
        LET node == Src(DefaultName, "dot", Ins(a, 2), attrs)
        IN  Lower(node, KwOp, convert_dot(node, KwOp))

LowerGemm2 ==
    \E a \in Lowered, ta \in {"True", "False"}, tb \in {"True", "False"}, alpha \in {1, 2} :
        LET node == Src(DefaultName, "_linalg_gemm2", Ins(a, 2),
                        [transpose_a |-> ta, transpose_b |-> tb, alpha |-> alpha])
        IN  Lower(node, KwOp, convert_linalg_gemm2(node, KwOp))

LowerSoftmax ==
    \E a \in Lowered, n \in {1, 2}, axis \in {-1, 1},
       attrs \in {<<>>, [use_length |-> "True"]} :
        LET node == Src(DefaultName, "softmax", Ins(a, n), attrs @@ [axis |-> axis])
        IN  Lower(node, KwOp, convert_softmax(node, KwOp))

\* Pooling nodes: with and without kernel, pool_type, global_pool, p_value
PoolingAttrs ==
    {k @@ t @@ g @@ pv @@ c :
        k \in {<<>>, [kernel |-> <<"(", "2", ",", " ", "2", ")">>]},
        t \in {<<>>, [pool_type |-> "avg"], [pool_type |-> "lp"]},
        g \in {<<>>, [global_pool |-> "True"]},
        pv \in {<<>>, [p_value |-> <<"2">>], [p_value |-> NoneChars]},
        c \in {<<>>, [pooling_convention |-> "full"]}}

LowerPooling ==
    \E a \in Lowered, attrs \in PoolingAttrs :
        LET node == Src(DefaultName, "Pooling", Ins(a, 1), attrs)
        IN  Lower(node, KwOp, convert_pooling(node, KwOp))

\* output_size as an integer, a pair and a triple
OutputSizes ==
    {<<"1">>, <<"2">>, <<"(", "1", ",", " ", "1", ")">>, <<"(", "1", ",", " ", "2", ")">>,
     <<"(", "2", ",", " ", "1", ")">>, <<"(", "1", ",", " ", "1", ",", " ", "1", ")">>,
     <<"(", "2", ",", " ", "2", ",", " ", "2", ")">>}

LowerAdaptiveAvgPooling2D ==
    \E a \in Lowered, attrs \in {<<>>} \cup {[output_size |-> o] : o \in OutputSizes} :
        LET node == Src(DefaultName, "_contrib_AdaptiveAvgPooling2D", Ins(a, 1), attrs)
        IN  Lower(node, KwOp, convert_contrib_AdaptiveAvgPooling2D(node, KwOp))

\* begin, end and step of one and of two axes, with None and negative entries
SliceBegins == {<<"(", "0", ",", " ", "1", ")">>, <<"(", "N", "o", "n", "e", ",", " ", "1", ")">>, <<"(", "N", "o", "n", "e", ",", ")">>}

SliceEnds == {<<"(", "2", ",", " ", "N", "o", "n", "e", ")">>, <<"(", "N", "o", "n", "e", ",", " ", "3", ")">>, <<"(", "2", ",", ")">>}

SliceSteps ==
    {<<"(", "N", "o", "n", "e", ",", ")">>,
     <<"(", "1", ",", " ", "2", ")">>,
     <<"(", "1", ",", " ", "-", "1", ")">>,
     <<"(", "-", "1", ",", ")">>,
     <<"(", "N", "o", "n", "e", ",", " ", "2", ")">>,
     <<"(", "2", ",", ")">>}

LowerSlice ==
    \E a \in Lowered, begin \in SliceBegins, end \in SliceEnds :
        \E attrs \in {[begin |-> begin, end |-> end]}
                        \cup {[begin |-> begin, end |-> end, step |-> st] : st \in SliceSteps} :
            LET node == Src(DefaultName, "slice", Ins(a, 1), attrs)
            IN  Lower(node, KwOp, convert_slice(node, KwOp))

ActTypes == {<<"e", "l", "u">>, <<"l", "e", "a", "k", "y">>, <<"p", "r", "e", "l", "u">>, <<"s", "e", "l", "u">>, <<"g", "e", "l", "u">>, <<"r", "r", "e", "l", "u">>}

LowerLeakyReLU ==
    \E a \in Lowered, t \in {<<>>} \cup {[act_type |-> x] : x \in ActTypes},
       sl \in {<<>>, [slope |-> <<1, 10>>]} :
        LET attrs == t @@ sl
            n == IF Get(attrs, "act_type", <<>>) = <<"p", "r", "e", "l", "u">> THEN 2 ELSE 1
            node == Src(DefaultName, "LeakyReLU", Ins(a, n), attrs)
        IN  Lower(node, KwOp, convert_leakyrelu(node, KwOp))

LowerL2Normalization ==
    \E a \in Lowered, attrs \in {<<>>, [mode |-> "channel"], [mode |-> "instance"]} :
        LET node == Src(DefaultName, "L2Normalization", Ins(a, 1), attrs)
        IN  Lower(node, KwOp, convert_l2normalization(node, KwOp))

LowerDropout ==
    \E a \in Lowered, attrs \in {<<>>, [p |-> <<1, 4>>]} :
        LET node == Src(DefaultName, "Dropout", Ins(a, 1), attrs)
        IN  Lower(node, KwOp, convert_dropout(node, KwOp))

LowerClip ==
    \E a \in Lowered, attrs \in {<<>>, [a_min |-> R(0), a_max |-> R(6)]} :
        LET node == Src(DefaultName, "clip", Ins(a, 1), attrs)
        IN  Lower(node, KwOp, convert_clip(node, KwOp))

LowerReshape ==
    \E a \in Lowered, attrs \in {<<>>, [reverse |-> "True"]},
       shape \in {<<"(", "0", ",", "-", "1", ")">>, <<"(", "2", ",", "-", "2", ")">>} :
        LET node == Src(DefaultName, "Reshape", Ins(a, 1), attrs @@ [shape |-> shape])
        IN  Lower(node, KwOp, convert_reshape(node, KwOp))

\* lengths of the axis that SliceChannel splits
AxisLengths == {3, 4, 6}

LowerSliceChannel ==
    \E a \in Lowered, num_outputs \in {1, 2, 3}, squeeze_axis \in {0, 1},
       length \in AxisLengths, axis \in {0, 1} :
        LET node == Src(DefaultName, "SliceChannel", Ins(a, 1),
                        [num_outputs |-> num_outputs, squeeze_axis |-> squeeze_axis,
                         axis |-> axis])
            kw == Kw(FALSE, <<>>, << IF axis = 0 THEN <<length, 2>> ELSE <<2, length>> >>)
        IN  Lower(node, kw, convert_slice_channel(node, kw))

LowerSquare ==
    \E a \in Lowered :
        LET node == Src(DefaultName, "square", Ins(a, 1), <<>>)
        IN  Lower(node, KwOp, convert_square(node, KwOp))

LowerTile ==
    \E a \in Lowered, attrs \in {<<>>, [reps |-> <<"(", "2", ",", " ", "3", ")">>]} :
        LET node == Src(DefaultName, "tile", Ins(a, 1), attrs)
        IN  Lower(node, KwOp, convert_tile(node, KwOp))

LowerBroadcastTo ==
    \E a \in Lowered, attrs \in {<<>>, [shape |-> <<"(", "2", ",", " ", "0", ")">>]} :
        LET node == Src(DefaultName, "broadcast_to", Ins(a, 1), attrs)
        IN  Lower(node, KwOp, convert_broadcast_to(node, KwOp))

LowerTopk ==
    \E a \in Lowered, attrs \in {<<>>, [ret_typ |-> "both", k |-> 3], [ret_typ |-> "value"]} :
        LET node == Src(DefaultName, "topk", Ins(a, 1), attrs)
        IN  Lower(node, KwOp, convert_topk(node, KwOp))

LowerSliceLike ==
    \E a \in Lowered, attrs \in {<<>>, [axes |-> "None"], [axes |-> "(0, 1)"]} :
        LET node == Src(DefaultName, "slice_like", Ins(a, 2), attrs)
        IN  Lower(node, KwOp, convert_slice_like(node, KwOp))

LowerArangeLike ==
    \E a \in Lowered,
       attrs \in {<<>>, [axis |-> 0], [repeat |-> 2], [start |-> R(1), step |-> R(3)]} :
        LET node == Src(DefaultName, "_contrib_arange_like", Ins(a, 1), attrs)
        IN  Lower(node, KwOp, convert_arange_like(node, KwOp))

LowerBilinearResize2D ==
    \E a \in Lowered,
       attrs \in {<<>>, [height |-> 2, width |-> 3], [scale_height |-> 2, scale_width |-> 2],
                  [height |-> 2, width |-> 2, mode |-> "like"]} :
        LET node == Src(DefaultName, "_contrib_BilinearResize2D", Ins(a, 1), attrs)
        IN  Lower(node, KwOp, convert_contrib_BilinearResize2D(node, KwOp))

LowerArange ==
    \E attrs \in {<<>>, [stop |-> R(5)], [stop |-> R(5), repeat |-> 2]} :
        LET node == Src(DefaultName, "_arange", <<>>, attrs)
        IN  Lower(node, KwOp, convert_arange(node, KwOp))

LowerRepeat ==
    \E a \in Lowered,
       attrs \in {<<>>, [repeats |-> 0], [repeats |-> 2, axis |-> 0],
                  [repeats |-> 2, axis |-> -1], [repeats |-> 2, axis |-> -2]} :
        LET node == Src(DefaultName, "repeat", Ins(a, 1), attrs)
        IN  Lower(node, KwOp, convert_repeat(node, KwOp))

LowerLayerNorm ==
    \E a \in Lowered, attrs \in {<<>>, [axis |-> 1]} :
        LET node == Src(DefaultName, "LayerNorm", Ins(a, 3), attrs)
        IN  Lower(node, KwOp, convert_layer_norm(node, KwOp))

LowerBroadcastAxis ==
    \E a \in Lowered,
       attrs \in {<<>>,
                  [axis |-> <<"(", "2", ")">>, size |-> <<"(", "3", ")">>],
                  [axis |-> <<"(", "0", ",", " ", "2", ")">>, size |-> <<"(", "2", ",", " ", "3", ")">>],
                  [axis |-> <<"(", "1", ")">>]} :
        LET node == Src(DefaultName, "broadcast_axis", Ins(a, 1), attrs)
        IN  Lower(node, KwOp, convert_broadcast_axis(node, KwOp))

LowerReverse ==
    \E a \in Lowered, attrs \in {<<>>, [axis |-> 1], [axis |-> -1], [axis |-> 10]} :
        LET node == Src(DefaultName, "reverse", Ins(a, 1), attrs)
        IN  Lower(node, KwOp, convert_reverse(node, KwOp))

LowerSequenceMask ==
    \E a \in Lowered,
       attrs \in {<<>>, [use_sequence_length |-> "True"],
                  [use_sequence_length |-> "True", axis |-> 1, value |-> 5]} :
        LET node == Src(DefaultName, "SequenceMask", Ins(a, 2), attrs)
        IN  Lower(node, KwOp, convert_sequencemask(node, KwOp))

LowerBoxDecode ==
    \E a \in Lowered,
       attrs \in {<<>>, [format |-> "corner"], [clip |-> 1], [format |-> "xywh"]} :
        LET node == Src(DefaultName, "_contrib_box_decode", Ins(a, 2), attrs)
        IN  Lower(node, KwOp, convert_contrib_box_decode(node, KwOp))

LowerReshapeLike ==
    \E a \in Lowered,
       attrs \in {<<>>, [lhs_begin |-> NoneVal], [lhs_begin |-> -1, rhs_end |-> 2],
                  [lhs_begin |-> 1, lhs_end |-> -1, rhs_begin |-> -1, rhs_end |-> -1],
                  [lhs_end |-> 2]} :
        LET node == Src(DefaultName, "reshape_like", Ins(a, 2), attrs)
        IN  Lower(node, KwOp, convert_reshape_like(node, KwOp))

Next ==
    \/ LowerNull
    \/ LowerBasic
    \/ LowerScalar
    \/ LowerFullyConnected
    \/ LowerPad
    \/ LowerDot
    \/ LowerGemm2
    \/ LowerSoftmax
    \/ LowerPooling
    \/ LowerAdaptiveAvgPooling2D
    \/ LowerSlice
    \/ LowerLeakyReLU
    \/ LowerL2Normalization
    \/ LowerDropout
    \/ LowerClip
    \/ LowerReshape
    \/ LowerSliceChannel
    \/ LowerSquare
    \/ LowerTile
    \/ LowerBroadcastTo
    \/ LowerTopk
    \/ LowerSliceLike
    \/ LowerArangeLike
    \/ LowerBilinearResize2D
    \/ LowerArange
    \/ LowerRepeat
    \/ LowerLayerNorm
    \/ LowerBroadcastAxis
    \/ LowerReverse
    \/ LowerSequenceMask
    \/ LowerBoxDecode
    \/ LowerReshapeLike

Spec == Init /\ [][Next]_vars

-----------------------------------------------------------------------------
(* parse_helper applied to the "stride" attribute (Convolution, line 241) *)

\* the attribute strings: every string of at most MaxStr of these characters
MaxStr == 5
StrChars == {"(", ")", "1", "2", ","}
Strings == UNION {[1..n -> StrChars] : n \in 0..MaxStr}

\* alt_value of the call: [1, 1]
AltValue == <<1, 1>>

InitParse ==
    /\ initializer = <<>>
    /\ proc_nodes = <<>>
    /\ index_lookup = <<>>
    /\ idx = 0
    /\ opset_version = 11
    /\ status = "ok"
    /\ last = NoLast
    /\ attrs_in \in {<<>>, [kernel |-> <<"(", "2", ",", "2", ")">>]}
                    \cup {[stride |-> s] : s \in Strings}
    /\ parsed = NotParsed
    /\ feeds = NoFeeds
    /\ fetched = NotFetched

Parse ==
    /\ parsed = NotParsed
    /\ parsed' = parse_helper(attrs_in, "stride", AltValue)
    /\ UNCHANGED <<initializer, proc_nodes, index_lookup, idx, opset_version, status, last,
                   attrs_in, feeds, fetched>>

NextParse == Parse

SpecParse == InitParse /\ [][NextParse]_vars

-----------------------------------------------------------------------------
(* Running the emitted nodes: the target operators on small tensors.  A    *)
(* tensor is [shape, val] with val in row-major order; its elements are     *)
(* rationals, a boolean being 1 or 0.                                        *)

\* the sequence of the first n values of f
RECURSIVE Listed(_, _)
Listed(f, n) == IF n = 0 THEN <<>> ELSE Append(Listed(f, n - 1), f[n])

Tn(shape, val) == [shape |-> Listed(shape, Len(shape)), val |-> Listed(val, Len(val))]

\* the result of an operator that fails (no tensor has a negative dimension)
ErrT == [shape |-> <<-1>>, val |-> <<>>]

RECURSIVE Prod(_)
Prod(s) == IF s = <<>> THEN 1 ELSE Head(s) * Prod(Tail(s))

Max(a, b) == IF a >= b THEN a ELSE b

Min(a, b) == IF a <= b THEN a ELSE b

Stride(shape, i) == Prod(SubSeq(shape, i + 1, Len(shape)))

\* the multi-index (0-based) of the element at offset k, and back
Unflat(k, shape) ==
    Listed([i \in DOMAIN shape |-> (k \div Stride(shape, i)) % shape[i]], Len(shape))

RECURSIVE Flat(_, _)
Flat(m, shape) ==
    IF m = <<>> THEN 0
    ELSE Head(m) * Stride(shape, 1) + Flat(Tail(m), Tail(shape))

\* multidirectional broadcasting
PadShape(s, n) ==
    Listed([i \in 1..n |-> IF i <= n - Len(s) THEN 1 ELSE s[i - (n - Len(s))]], n)

Broadcastable(a, b) ==
    LET n == Max(Len(a), Len(b))
    IN  \A i \in 1..n :
            \/ PadShape(a, n)[i] = PadShape(b, n)[i]
            \/ PadShape(a, n)[i] = 1
            \/ PadShape(b, n)[i] = 1

BShape(a, b) ==
    LET n == Max(Len(a), Len(b))
    IN  Listed([i \in 1..n |-> IF PadShape(a, n)[i] = 1 THEN PadShape(b, n)[i]
                                ELSE PadShape(a, n)[i]], n)

\* the element of t that position m of a broadcast result reads
BGet(t, m) ==
    LET off == Len(m) - Len(t.shape)
        at == Listed([i \in DOMAIN t.shape |-> IF t.shape[i] = 1 THEN 0 ELSE m[i + off]],
                     Len(t.shape))
    IN  t.val[Flat(at, t.shape) + 1]

Bool(b) == IF b THEN R(1) ELSE R(0)

VLess(x, y) == x[1] * y[2] < y[1] * x[2]

\* Exp to the base 2, on integers: exact in the rationals, positive and
\* increasing like the exponential
VExp(x) == IF x[1] >= 0 THEN R(2 ^ x[1]) ELSE <<1, 2 ^ (0 - x[1])>>

\* conversion to an integer type truncates towards zero
VTrunc(x) == R(Sign(x[1]) * (Abs(x[1]) \div x[2]))

Scalar2(op, x, y) ==
    CASE op = "Add" -> VAdd(x, y)
      [] op = "Sub" -> VSub(x, y)
      [] op = "Mul" -> VMul(x, y)
      [] op = "Div" -> VDiv(x, y)
      [] op = "Less" -> Bool(VLess(x, y))
      [] op = "Equal" -> Bool(x = y)

Binary(op, a, b) ==
    IF a = ErrT \/ b = ErrT THEN ErrT
    ELSE IF ~Broadcastable(a.shape, b.shape) THEN ErrT
    ELSE LET shape == BShape(a.shape, b.shape)
         IN  Tn(shape, [k \in 1..Prod(shape) |->
                           Scalar2(op, BGet(a, Unflat(k - 1, shape)),
                                   BGet(b, Unflat(k - 1, shape)))])

Where(c, x, y) ==
    IF c = ErrT \/ x = ErrT \/ y = ErrT THEN ErrT
    ELSE IF ~Broadcastable(x.shape, y.shape) THEN ErrT
    ELSE IF ~Broadcastable(c.shape, BShape(x.shape, y.shape)) THEN ErrT
    ELSE LET shape == BShape(c.shape, BShape(x.shape, y.shape))
         IN  Tn(shape, [k \in 1..Prod(shape) |->
                           IF BGet(c, Unflat(k - 1, shape)) = R(1)
                           THEN BGet(x, Unflat(k - 1, shape))
                           ELSE BGet(y, Unflat(k - 1, shape))])

Unary(op, attrs, a) ==
    IF a = ErrT THEN ErrT
    ELSE Tn(a.shape, [k \in DOMAIN a.val |->
                         CASE op = "Exp" -> VExp(a.val[k])
                           [] op = "Abs" -> <<Abs(a.val[k][1]), a.val[k][2]>>
                           [] op = "Cast" -> IF attrs.to = "INT64" THEN VTrunc(a.val[k])
                                             ELSE a.val[k]])

\* the sum of the elements of a at the positions m with 0..j-1 at axis ax
RECURSIVE AxisSum(_, _, _, _)
AxisSum(a, m, ax, j) ==
    IF j = 0 THEN R(0)
    ELSE VAdd(AxisSum(a, m, ax, j - 1), a.val[Flat([m EXCEPT ![ax] = j - 1], a.shape) + 1])

\* ReduceSum over one axis with keepdims=1
ReduceSum(a, axis) ==
    IF a = ErrT THEN ErrT
    ELSE IF ~PyIn(a.shape, axis) THEN ErrT
    ELSE LET ax == (IF axis < 0 THEN axis + Len(a.shape) ELSE axis) + 1
             shape == [a.shape EXCEPT ![ax] = 1]
         IN  Tn(shape, [k \in 1..Prod(shape) |->
                           AxisSum(a, Unflat(k - 1, shape), ax, a.shape[ax])])

ShapeOf(a) == IF a = ErrT THEN ErrT ELSE Tn(<<Len(a.shape)>>, T(a.shape))

\* the integers of a tensor of integers
Ints(a) == Listed([k \in DOMAIN a.val |-> a.val[k][1]], Len(a.val))

\* a start or end of Slice: negative counts from the end, then clamped
Clamp(i, n) == Min(Max(IF i < 0 THEN i + n ELSE i, 0), n)

\* Slice of a vector along its axis, step 1
Slice(data, starts, ends) ==
    IF data = ErrT \/ starts = ErrT \/ ends = ErrT THEN ErrT
    ELSE IF Len(data.shape) # 1 \/ Len(starts.val) # 1 \/ Len(ends.val) # 1 THEN ErrT
    ELSE LET n == data.shape[1]
             b == Clamp(Ints(starts)[1], n)
             e == Clamp(Ints(ends)[1], n)
         IN  Tn(<<Max(e - b, 0)>>, SubSeq(data.val, b + 1, e))

\* Concat of vectors, axis 0
Concat(a, b) ==
    IF a = ErrT \/ b = ErrT THEN ErrT
    ELSE IF Len(a.shape) # 1 \/ Len(b.shape) # 1 THEN ErrT
    ELSE Tn(<<a.shape[1] + b.shape[1]>>, a.val \o b.val)

\* Pad of a vector, mode constant; pads = [begin, end]
Pad(data, pads, value) ==
    IF data = ErrT \/ pads = ErrT \/ value = ErrT THEN ErrT
    ELSE IF Len(data.shape) # 1 \/ Len(pads.val) # 2 \/ Len(value.val) # 1 THEN ErrT
    ELSE IF Ints(pads)[1] < 0 \/ Ints(pads)[2] < 0 THEN ErrT
    ELSE Tn(<<data.shape[1] + Ints(pads)[1] + Ints(pads)[2]>>,
            [k \in 1..Ints(pads)[1] |-> value.val[1]] \o data.val
                \o [k \in 1..Ints(pads)[2] |-> value.val[1]])

\* the shape Reshape gives data for the requested dims: 0 copies the input
\* dimension at the same position, -1 is inferred; <<-1>> if there is none
Resolved(in_shape, dims) ==
    LET copied == Listed([i \in DOMAIN dims |->
                             IF dims[i] = 0 /\ i <= Len(in_shape) THEN in_shape[i] ELSE dims[i]],
                         Len(dims))
        free == {i \in DOMAIN dims : copied[i] = -1}
        known == Prod(Listed([i \in DOMAIN dims |-> IF i \in free THEN 1 ELSE copied[i]],
                             Len(dims)))
    IN  IF \E i \in DOMAIN dims : dims[i] < -1 \/ (dims[i] = 0 /\ i > Len(in_shape))
        THEN <<-1>>
        ELSE IF free = {}
        THEN (IF known = Prod(in_shape) THEN copied ELSE <<-1>>)
        ELSE IF Cardinality(free) > 1 \/ known = 0 \/ Prod(in_shape) % known # 0
        THEN <<-1>>
        ELSE Listed([i \in DOMAIN dims |->
                        IF i \in free THEN Prod(in_shape) \div known ELSE copied[i]], Len(dims))

Reshape(data, shape) ==
    IF data = ErrT \/ shape = ErrT THEN ErrT
    ELSE IF Len(shape.shape) # 1 THEN ErrT
    ELSE IF Resolved(data.shape, Ints(shape)) = <<-1>> THEN ErrT
    ELSE Tn(Resolved(data.shape, Ints(shape)), data.val)

\* Range(start, limit, delta) of scalars, delta > 0
OnnxRange(start, limit, delta) ==
    IF start = ErrT \/ limit = ErrT \/ delta = ErrT THEN ErrT
    ELSE IF start.shape # <<>> \/ limit.shape # <<>> \/ delta.shape # <<>> THEN ErrT
    ELSE IF Ints(delta)[1] <= 0 THEN ErrT
    ELSE LET n == Max((Ints(limit)[1] - Ints(start)[1] + Ints(delta)[1] - 1)
                          \div Ints(delta)[1], 0)
         IN  Tn(<<n>>, [k \in 1..n |-> R(Ints(start)[1] + (k - 1) * Ints(delta)[1])])

\* the output of target node nd on inputs x
EvalOp(nd, x) ==
    CASE nd.op \in {"Add", "Sub", "Mul", "Div", "Less", "Equal"} /\ Len(x) = 2 ->
            Binary(nd.op, x[1], x[2])
      [] nd.op \in {"Exp", "Abs", "Cast"} /\ Len(x) = 1 -> Unary(nd.op, nd.attrs, x[1])
      [] nd.op = "Where" /\ Len(x) = 3 -> Where(x[1], x[2], x[3])
      [] nd.op = "ReduceSum" /\ Len(x) = 1 -> ReduceSum(x[1], nd.attrs.axes[1])
      [] nd.op = "Shape" /\ Len(x) = 1 -> ShapeOf(x[1])
      [] nd.op = "Slice" /\ Len(x) = 3 -> Slice(x[1], x[2], x[3])
      [] nd.op = "Concat" /\ Len(x) = 2 -> Concat(x[1], x[2])
      [] nd.op = "Pad" /\ Len(x) = 3 -> Pad(x[1], x[2], x[3])
      [] nd.op = "Reshape" /\ Len(x) = 2 -> Reshape(x[1], x[2])
      [] nd.op = "Range" /\ Len(x) = 3 -> OnnxRange(x[1], x[2], x[3])
      [] OTHER -> ErrT

\* the tensors by name after item it: an initializer binds its tensor, a node
\* binds its output
Bind(env, name, t) == (name :> t) @@ env

Step(it, env) ==
    CASE it.kind = "init" -> Bind(env, it.name, Tn(it.dims, it.val))
      [] it.kind = "node" ->
            Bind(env, it.outputs[1],
                 IF \A i \in DOMAIN it.inputs : it.inputs[i] \in DOMAIN env
                 THEN EvalOp(it, [i \in DOMAIN it.inputs |-> env[it.inputs[i]]])
                 ELSE ErrT)
      [] OTHER -> env

RECURSIVE Run(_, _)
Run(items, env) ==
    IF items = <<>> THEN env
    ELSE LET next == Step(Head(items), env)
         IN  IF DOMAIN next = {} THEN next ELSE Run(Tail(items), next)

-----------------------------------------------------------------------------
(* A rule applied to a node whose inputs are the graph inputs n0 (and n1),   *)
(* and the emitted nodes run on the tensors fed to them                       *)

\* largest valid length of a row
MaxLength == 3

\* a tensor with elements 0, 1, 0, 1, ...
Data(shape) == Tn(shape, [k \in 1..Prod(shape) |-> R((k - 1) % 2)])

Feed1(t) == (<<"n", "0">> :> t)

Feed2(t, u) == (<<"n", "0">> :> t) @@ (<<"n", "1">> :> u)

\* data of shape 2x3 with a valid length for each row (axis 1) or column (axis 0)
SoftmaxFeeds ==
    {Feed2(Data(<<2, 3>>), Tn(<<n>>, T(l))) : l \in [1..2 -> 0..MaxLength], n \in {2}}
    \cup {Feed2(Data(<<2, 3>>), Tn(<<n>>, T(l))) : l \in [1..3 -> 0..(MaxLength - 1)], n \in {3}}

ReshapeFeeds == {Feed1(Data(sh)) : sh \in {<<6>>, <<2, 3>>, <<3, 2>>, <<2, 3, 2>>}}

ReshapeLikeFeeds ==
    {Feed2(Data(sh), Data(rh)) : sh \in {<<6>>, <<2, 3>>, <<3, 2, 2>>},
                                 rh \in {<<6>>, <<3, 2>>, <<2, 3, 1>>, <<4, 3>>}}

InitEval ==
    /\ initializer = <<>>
    /\ proc_nodes = <<VI(<<"n", "0">>), VI(<<"n", "1">>)>>
    /\ index_lookup = <<1, 2>>
    /\ idx = 2
    /\ opset_version = 11
    /\ status = "ok"
    /\ last = NoLast
    /\ attrs_in = <<>>
    /\ parsed = NotParsed
    /\ feeds \in SoftmaxFeeds \cup ReshapeFeeds \cup ReshapeLikeFeeds
    /\ fetched = NotFetched

\* run the nodes that rule result r emitted: every tensor by name
Fetch(r) == [run |-> TRUE, env |-> Run(r.items, feeds)]

Evaluate(node, kw, r) ==
    /\ fetched = NotFetched
    /\ r.err = ""
    /\ Walk(node, kw, r)
    /\ fetched' = Fetch(r)
    /\ UNCHANGED feeds

\* the input references of a node reading every fed graph input
FedIns == IF Cardinality(DOMAIN feeds) = 1 THEN <<Ref(1)>> ELSE <<Ref(1), Ref(2)>>

EvalSoftmax ==
    \E axis \in {-2, -1, 0, 1} :
        LET node == Src(DefaultName, "softmax", FedIns, [axis |-> axis, use_length |-> "True"])
        IN  /\ feeds \in SoftmaxFeeds
            /\ Evaluate(node, KwOp, convert_softmax(node, KwOp))

ReshapeShapes ==
    {<<"(", "-", "1", ",", " ", "0", ")">>, <<"(", "0", ",", " ", "-", "1", ")">>,
     <<"(", "3", ",", " ", "2", ")">>, <<"(", "-", "1", ",", ")">>,
     <<"(", "2", ",", " ", "-", "1", ")">>, <<"(", "0", ",", " ", "0", ")">>,
     <<"(", "-", "1", ",", " ", "2", ",", " ", "3", ")">>,
     <<"(", "1", ",", " ", "0", ",", " ", "0", ")">>,
     <<"(", "4", ",", " ", "0", ")">>}

EvalReshape ==
    \E shape \in ReshapeShapes, reverse \in {"True", "False"} :
        LET node == Src(DefaultName, "Reshape", FedIns, [shape |-> shape, reverse |-> reverse])
        IN  /\ feeds \in ReshapeFeeds
            /\ Evaluate(node, KwOp, convert_reshape(node, KwOp))

Begins == {0, 1, -1}

Ends == {NoneVal, 2, -1}

EvalReshapeLike ==
    \E lhs_begin \in Begins, lhs_end \in Ends, rhs_begin \in Begins, rhs_end \in Ends :
        LET node == Src(DefaultName, "reshape_like", FedIns,
                        [lhs_begin |-> lhs_begin, lhs_end |-> lhs_end,
                         rhs_begin |-> rhs_begin, rhs_end |-> rhs_end])
        IN  /\ feeds \in ReshapeLikeFeeds
            /\ Evaluate(node, KwOp, convert_reshape_like(node, KwOp))

\* the inputs of a direct rename, in either order
BasicIns ==
    [abs |-> {<<Ref(1)>>, <<Ref(2)>>},
     elemwise_sub |-> {<<Ref(1), Ref(2)>>, <<Ref(2), Ref(1)>>, <<Ref(1), Ref(1)>>},
     broadcast_div |-> {<<Ref(1), Ref(2)>>, <<Ref(2), Ref(1)>>},
     add_n |-> {<<Ref(2), Ref(1), Ref(2)>>, <<Ref(1), Ref(2), Ref(2)>>}]

EvalBasic ==
    \E op \in DOMAIN BasicIns :
        \E ins \in BasicIns[op], attrs \in {NoAttrs, [num_args |-> 2]} :
            LET node == Src(DefaultName, op, ins, attrs)
            IN  /\ feeds \in ReshapeLikeFeeds
                /\ Evaluate(node, KwOp, create_basic_op_node(BasicOps[op], node, KwOp))

NextEval ==
    \/ EvalSoftmax
    \/ EvalReshape
    \/ EvalReshapeLike
    \/ EvalBasic

SpecEval == InitEval /\ [][NextEval]_vars

-----------------------------------------------------------------------------
(* The constant helpers applied to values of every element type *)

\* largest magnitude of a value handed to a constant helper
MaxConst == 5

ConstValues == {R(v) : v \in (0 - MaxConst)..MaxConst}

\* a call of a constant helper: which one, the element type, the values
ConstCalls ==
    [entry : {"create_const_scalar_node"}, dtype : {"float16", "float32", "int64"},
     value : {<<v>> : v \in ConstValues}]
    \cup [entry : {"create_const_node", "create_tensor"},
          dtype : {"float16", "float32", "int64"},
          value : {<<v>> : v \in ConstValues}
                      \cup {<<v, w>> : v \in {R(1), R(0 - 2)}, w \in ConstValues}]

InitConst ==
    /\ initializer = <<>>
    /\ proc_nodes = <<>>
    /\ index_lookup = <<>>
    /\ idx = 0
    /\ opset_version = 11
    /\ status = "ok"
    /\ last = NoLast
    /\ attrs_in \in ConstCalls
    /\ parsed = NotParsed
    /\ feeds = NoFeeds
    /\ fetched = NotFetched

\* the call: the tensor is appended to the initializer list
Materialize ==
    /\ initializer = <<>>
    /\ LET name == <<"c">>
           item == CASE attrs_in.entry = "create_const_scalar_node" ->
                            create_const_scalar_node(name, attrs_in.value[1], attrs_in.dtype)
                     [] attrs_in.entry = "create_const_node" ->
                            create_const_node(name, attrs_in.value, attrs_in.dtype)
                     [] OTHER -> create_tensor(attrs_in.value, name, attrs_in.dtype)
       IN  initializer' = initializer_append(initializer, <<item>>)
    /\ UNCHANGED <<proc_nodes, index_lookup, idx, opset_version, status, last, attrs_in,
                   parsed, feeds, fetched>>

NextConst == Materialize

SpecConst == InitConst /\ [][NextConst]_vars

-----------------------------------------------------------------------------
(* A consumer lowered after a producer that has several outputs *)

\* the graph input that the producer reads
Input0 == VI(<<"n", "0">>)

\* source nodes with several outputs, second node of the graph
Producers ==
    {Src(<<"n", "1">>, "topk", <<Ref(1)>>, [ret_typ |-> "both", k |-> k]) : k \in {1, 3}}
    \cup {Src(<<"n", "1">>, "SliceChannel", <<Ref(1)>>, [num_outputs |-> n]) : n \in {2, 4}}

\* the context of the producer's rule: the graph input has been lowered
ProducerKw(o) ==
    [initializer |-> <<>>, proc_nodes |-> <<Input0>>, index_lookup |-> <<1>>,
     idx |-> 1, opset_version |-> o, in_type |-> InType, is_input |-> FALSE,
     weights |-> <<>>, in_shape |-> << <<2, 4>> >>]

ProducerRule(node, kw) ==
    IF node.op = "topk" THEN convert_topk(node, kw) ELSE convert_slice_channel(node, kw)

\* the pass after the graph input and the producer
InitOutputs ==
    \E o \in Opsets, p \in Producers :
        LET r == ProducerRule(p, ProducerKw(o))
        IN  /\ initializer = initializer_append(<<>>, r.items)
            /\ proc_nodes = <<Input0>> \o r.items
            /\ index_lookup = <<1, 1 + Len(r.items)>>
            /\ idx = 2
            /\ opset_version = o
            /\ status = "ok"
            /\ last = NoLast
            /\ attrs_in = <<>>
            /\ parsed = NotParsed
            /\ feeds = NoFeeds
            /\ fetched = NotFetched

\* input references <<producer, output index>> of the consumer
OutputRefs == {<<1, 0>>, <<2, 0>>, <<2, 1>>, <<2, 2>>}

\* the third node of the graph reads outputs of the nodes before it
Consume ==
    \E op \in {"relu", "elemwise_add"}, a \in OutputRefs, b \in OutputRefs :
        LET ins == IF op = "relu" THEN <<a>> ELSE <<a, b>>
            node == Src(DefaultName, op, ins, NoAttrs)
        IN  /\ last = NoLast
            /\ Walk(node, KwOp, create_basic_op_node(BasicOps[op], node, KwOp))
            /\ UNCHANGED <<feeds, fetched>>

NextOutputs == Consume

SpecOutputs == InitOutputs /\ [][NextOutputs]_vars

-----------------------------------------------------------------------------
(* Properties of the lowering pass *)

\* a rule has been invoked
Invoked == last.idx >= 0

\* the initializer list as the last invocation found it, and what it appended
InitBefore == SubSeq(initializer, 1, last.init_before)

InitNew == SubSeq(initializer, last.init_before + 1, Len(initializer))

Names(items) == {items[i].name : i \in DOMAIN items}

NodeItems(items) == SelectSeq(items, LAMBDA it : it.kind = "node")

\* the last invocation was a scalar rule whose tensor input is (is not) the
\* name of an initializer
Fused == Invoked /\ last.node.op \in ScalarOps /\ last.inputs[1] \in Names(InitBefore)

NonFused == Invoked /\ last.node.op \in ScalarOps /\ last.inputs[1] \notin Names(InitBefore)

\* the constant the fused path folds, and the scalar
FusedConst == InitBefore[FirstNamed(InitBefore, last.inputs[1])].val

ScalarOf == R(last.node.attrs.scalar)

\* the attributes a node of the opcode cannot do without
Required(op) ==
    CASE op \in ScalarOps -> {"scalar"}
      [] op = "SliceChannel" -> {"num_outputs"}
      [] OTHER -> {}

NamedOps == ScalarOps \cup {"SliceChannel", "dot", "slice_like", "L2Normalization"}

\* C1: a minimal node (required attributes only) of a scalar rule, SliceChannel,
\* dot, slice_like or L2Normalization lowers to a non-empty list whose final
\* element is a target node with the source node's name among its outputs.
C1_NamingContract ==
    (/\ Invoked
     /\ last.node.op \in NamedOps
     /\ DOMAIN last.node.attrs \subseteq Required(last.node.op))
    => /\ last.err = ""
       /\ last.items # <<>>
       /\ Last(last.items).kind = "node"
       /\ last.node.name \in Range(Last(last.items).outputs)

\* the names defined before position p of proc_nodes: earlier initializers,
\* outputs of earlier target nodes, resolved names of lowered producers
DefinedBefore(p) ==
    {proc_nodes[q].name : q \in {q \in 1..(p - 1) : proc_nodes[q].kind = "init"}}
    \cup UNION {Range(proc_nodes[q].outputs) :
                    q \in {q \in 1..(p - 1) : proc_nodes[q].kind = "node"}}
    \cup {proc_nodes[index_lookup[k]].name :
              k \in {k \in DOMAIN index_lookup : index_lookup[k] < p}}

\* C2: every input of every emitted target node is defined before the node:
\* an earlier initializer, an earlier node's output, or the resolved name of an
\* already lowered producer.
C2_NoForwardReference ==
    \A p \in DOMAIN proc_nodes :
        proc_nodes[p].kind = "node" =>
            \A i \in DOMAIN proc_nodes[p].inputs : proc_nodes[p].inputs[i] \in DefinedBefore(p)

C2_Witness ==
    /\ Invoked
    /\ last.node.op = "broadcast_axis"
    /\ last.err = ""
    /\ Len(NodeItems(last.items)) >= 15
    /\ \E p \in DOMAIN proc_nodes :
          /\ p > last.nodes_before
          /\ proc_nodes[p].kind = "node"
          /\ last.inputs[1] \in Range(proc_nodes[p].inputs)

\* C3: a scalar rule whose tensor input names an initializer appends exactly
\* one initializer, named input name + counter and as long as the constant,
\* and returns no operator node.
C3_ScalarFusion ==
    Fused =>
        /\ last.err = ""
        /\ Len(InitNew) = 1
        /\ InitNew[1].name = last.inputs[1] \o <<Str(last.idx)>>
        /\ Len(InitNew[1].val) = Len(FusedConst)
        /\ NodeItems(last.items) = <<>>

C3_Witness == Fused /\ last.node.op = "_rdiv_scalar" /\ Len(InitNew) = 1

\* C4: the folded initializer is s - c for _rminus_scalar, c - s for
\* _minus_scalar, s / c for _rdiv_scalar and c / s for _div_scalar, whatever
\* the node's name.
C4_OperandOrderByOpcode ==
    Fused =>
        \A i \in DOMAIN FusedConst :
            LET c == FusedConst[i]
                s == ScalarOf
                v == InitNew[1].val[i]
            IN  /\ last.node.op = "_rminus_scalar" => v = VSub(s, c)
                /\ last.node.op = "_minus_scalar" => v = VSub(c, s)
                /\ last.node.op = "_rdiv_scalar" => v = VDiv(s, c)
                /\ last.node.op = "_div_scalar" => v = VDiv(c, s)

\* what the target operator op_type computes from inputs a, b
OnnxBinary(op_type, a, b) ==
    CASE op_type = "Mul" -> VMul(a, b)
      [] op_type = "Sub" -> VSub(a, b)
      [] op_type = "Add" -> VAdd(a, b)
      [] op_type = "Div" -> VDiv(a, b)
      [] op_type = "Pow" -> VPow(a, b[1])

\* what the source operator computes from data c and scalar s
SourceResult(op, c, s) ==
    CASE op = "_mul_scalar" -> VMul(c, s)
      [] op = "_minus_scalar" -> VSub(c, s)
      [] op = "_rminus_scalar" -> VSub(s, c)
      [] op = "_plus_scalar" -> VAdd(c, s)
      [] op = "_div_scalar" -> VDiv(c, s)
      [] op = "_rdiv_scalar" -> VDiv(s, c)
      [] op = "_power_scalar" -> VPow(c, s[1])

\* the binary node the same rule emits for the same node when no initializer
\* has the input's name
NonFusedNode ==
    Last(ScalarRule(last.node.op, last.node,
                    [KwOp EXCEPT !.initializer = <<>>, !.idx = last.idx]).items)

\* C5: the folded value equals what the non-fused binary node computes on the
\* same constant and scalar, and both equal the source operator's result.
C5_FoldingTransparent ==
    Fused =>
        \A i \in DOMAIN FusedConst :
            LET c == FusedConst[i]
                v == InitNew[1].val[i]
            IN  /\ v = OnnxBinary(NonFusedNode.op, c, ScalarOf)
                /\ v = SourceResult(last.node.op, c, ScalarOf)

\* C6: a scalar rule whose tensor input names no initializer appends exactly
\* one initializer, the scalar named scalar_op + counter, and emits exactly one
\* node with inputs [tensor input, that constant] and the node's name as its
\* single output.
C6_NonFusedScalar ==
    NonFused =>
        /\ last.err = ""
        /\ Len(InitNew) = 1
        /\ InitNew[1].name = <<"scalar_op", Str(last.idx)>>
        /\ InitNew[1].val = <<ScalarOf>>
        /\ Len(NodeItems(last.items)) = 1
        /\ NodeItems(last.items)[1].inputs = <<last.inputs[1], InitNew[1].name>>
        /\ NodeItems(last.items)[1].outputs = <<last.node.name>>

C6_Witness == NonFused /\ last.node.op = "_rminus_scalar" /\ Len(NodeItems(last.items)) = 1

\* C8: when a rule invocation ends with an error the initializer list is what
\* it was before the invocation.
C8_NoPartialOutput == (Invoked /\ last.err # "") => InitNew = <<>>

\* the opset from which the rule passes the values as inputs, and the
\* attributes that carry them below it
Threshold(op) ==
    CASE op = "Pad" -> 11 [] op = "clip" -> 11 [] op = "Dropout" -> 12 [] op = "topk" -> 10

Carried(op) ==
    CASE op = "Pad" -> {"pads", "value"}
      [] op = "clip" -> {"min", "max"}
      [] op = "Dropout" -> {"ratio"}
      [] op = "topk" -> {"k"}

\* C9: Pad, clip, Dropout and topk below their threshold append no initializer
\* and emit one node that carries the values as attributes; from the threshold
\* on the node carries none of them and every extra input names an initializer
\* the same invocation appended before the node.
C9_VersionBranching ==
    (Invoked /\ last.node.op \in {"Pad", "clip", "Dropout", "topk"} /\ last.err = "") =>
        LET op == last.node.op
            nd == Last(last.items)
        IN  /\ nd.kind = "node"
            /\ Len(NodeItems(last.items)) = 1
            /\ IF opset_version < Threshold(op)
               THEN /\ InitNew = <<>>
                    /\ Len(last.items) = 1
                    /\ Carried(op) \ {"value"} \subseteq DOMAIN nd.attrs
                    /\ nd.inputs = last.inputs
               ELSE /\ DOMAIN nd.attrs \cap Carried(op) = {}
                    /\ Len(nd.inputs) > Len(last.inputs)
                    /\ nd.inputs[1] = last.inputs[1]
                    /\ Len(InitNew) = Len(nd.inputs) - 1
                    /\ \A i \in 2..Len(nd.inputs) :
                          \E q \in 1..(Len(last.items) - 1) :
                              /\ last.items[q].kind = "init"
                              /\ last.items[q].name = nd.inputs[i]

C9_Witness ==
    /\ Invoked
    /\ last.node.op = "Pad"
    /\ last.node.attrs.mode = "constant"
    /\ opset_version >= 11
    /\ Len(InitNew) = 2

\* C10: _arange, _contrib_arange_like, _contrib_BilinearResize2D and repeat
\* below opset 11 raise the opset error with nothing built and nothing
\* appended; from opset 11 on they never raise it.
C10_VersionFailFast ==
    (/\ Invoked
     /\ last.node.op \in {"_arange", "_contrib_arange_like", "_contrib_BilinearResize2D",
                          "repeat"})
    => IF opset_version < 11
       THEN /\ last.err = OpsetError
            /\ last.items = <<>>
            /\ InitNew = <<>>
            /\ status = "error"
       ELSE last.err # OpsetError

C10_Witness ==
    /\ Invoked
    /\ last.node.op = "repeat"
    /\ opset_version = 10
    /\ last.err = OpsetError

\* the positional output names of a node called name with n outputs
PositionalNames(name, n) ==
    [i \in 1..n |-> IF i = 1 THEN name ELSE name \o <<"_output", Str(i - 1)>>]

\* C11: the target node that topk (ret_typ "both") and SliceChannel
\* (num_outputs > 1) emit names its outputs, in order, <node-name>,
\* <node-name>_output1, ...: the first output is exactly the source node's name.
C11_PositionalOutputs ==
    (Invoked /\ last.node.op \in {"topk", "SliceChannel"} /\ last.err = "") =>
        \A p \in DOMAIN last.items :
            (last.items[p].kind = "node" /\ Len(last.items[p].outputs) > 1) =>
                last.items[p].outputs =
                    PositionalNames(last.node.name, Len(last.items[p].outputs))

\* C12: the initializer list before a rule invocation is a prefix of the list
\* after it: no entry is removed, reordered or modified, on the scalar-fusion
\* path as on every other.
C12_AppendOnly ==
    [][/\ Len(initializer') >= Len(initializer)
       /\ SubSeq(initializer', 1, Len(initializer)) = initializer]_vars

\* a fused scalar rule has run: the constant it folded is still in the list and
\* its result is the last entry
C12_Witness ==
    /\ Fused
    /\ Len(InitNew) = 1
    /\ FirstNamed(initializer, last.inputs[1]) \in 1..last.init_before
    /\ Last(initializer).name = last.inputs[1] \o <<Str(last.idx)>>

\* C13: a rule invocation leaves the source node record (name, inputs, attrs)
\* as it found it, square, tile and broadcast_to included, which append to the
\* list get_inputs returned; and it leaves the entries of proc_nodes and
\* index_lookup it was given in place.
C13_SourceReadOnly ==
    Invoked =>
        /\ last.node_after = last.node
        /\ Len(proc_nodes) >= last.nodes_before
        /\ Len(index_lookup) >= last.idx
        /\ \A k \in 1..last.idx : index_lookup[k] <= last.nodes_before
        /\ last.inputs = [i \in DOMAIN last.node.inputs |->
                              proc_nodes[index_lookup[last.node.inputs[i][1]]].name]

\* tile has appended the name of its constant to input_nodes and emitted the node
C13_Witness ==
    /\ Invoked
    /\ last.node.op = "tile"
    /\ last.err = ""
    /\ Last(last.items).inputs = Append(last.inputs, <<"reps_attr_tensor", Str(last.idx)>>)

\* the exception type of an error
ErrorType(err) ==
    CASE err = OpsetError -> "AttributeError"
      [] err = "AttributeError: height, width or scale_height, scale_width cannot be 0" ->
            "AttributeError"
      [] OTHER -> err

FailureClasses == {"malformed", "missing", "unsupported", "version"}

\* the exception type of the raise statement of each failure class: malformed
\* attribute string (line 79), missing required attribute (line 2808),
\* unsupported attribute value (line 1077), version requirement (line 2740)
RaisedFor(class) ==
    CASE class = "malformed" -> parse_helper([stride |-> <<"(", "1", ")", ")">>], "stride", AltValue).kind
      [] class = "missing" -> ErrorType(convert_contrib_BilinearResize2D(
                                  Src(<<"n">>, "_contrib_BilinearResize2D", <<>>, <<>>),
                                  [KwOp EXCEPT !.opset_version = 11]).err)
      [] class = "unsupported" -> ErrorType(convert_l2normalization(
                                      Src(<<"n">>, "L2Normalization", <<>>, [mode |-> "instance"]),
                                      KwOp).err)
      [] class = "version" -> ErrorType(OpsetError)

\* the failure class of the last invocation
FailureClass ==
    CASE last.err = OpsetError -> "version"
      [] last.err # "" /\ last.node.op = "L2Normalization" -> "unsupported"
      [] last.err # "" /\ last.err # OpsetError /\ last.node.op = "_contrib_BilinearResize2D"
            /\ DOMAIN last.node.attrs \cap {"height", "width", "scale_height", "scale_width"} = {} ->
            "missing"
      [] OTHER -> "other"

\* C14: a failure of one class (malformed attribute string, missing required
\* attribute, unsupported attribute value, version requirement) has an error
\* type that no raise of another class has.
C14_ErrorKindsDistinct ==
    (Invoked /\ FailureClass \in FailureClasses) =>
        \A class \in FailureClasses \ {FailureClass} :
            ErrorType(last.err) # RaisedFor(class)

\* C15: no two initializers of the shared list have the same name (the source
\* nodes of a pass have pairwise distinct names and counter values).
C15_FreshConstantNames ==
    \A i, j \in DOMAIN initializer :
        i # j => initializer[i].name # initializer[j].name

-----------------------------------------------------------------------------
(* Properties of the emitted nodes when run *)

Env == fetched.env

\* the emitted node that produces tensor nm
Producer(nm) ==
    CHOOSE it \in Range(NodeItems(last.items)) : nm \in Range(it.outputs)

Produced(nm) == \E it \in Range(NodeItems(last.items)) : nm \in Range(it.outputs)

\* the node whose output is the source node's name
Final == Producer(last.node.name)

Data0 == feeds[<<"n", "0">>]

Data1 == feeds[<<"n", "1">>]

\* axis counted from the front
Resolve(axis, rank) == IF axis < 0 THEN axis + rank ELSE axis

\* s without its element number i
Without(s, i) == SubSeq(s, 1, i - 1) \o SubSeq(s, i + 1, Len(s))

\* softmax with a length input and use_length was run on data and lengths for
\* which the source operator is defined: one length for each row along the axis
MaskedSoftmax ==
    /\ fetched.run
    /\ last.node.op = "softmax"
    /\ Len(last.inputs) = 2
    /\ PyIn(Data0.shape, last.node.attrs.axis)
    /\ Data1.shape = Without(Data0.shape, Resolve(last.node.attrs.axis, Len(Data0.shape)) + 1)

SoftmaxAxis == Resolve(last.node.attrs.axis, Len(Data0.shape)) + 1

\* the valid length of the row that position m of the data belongs to
LengthAt(m) == Data1.val[Flat(Without(m, SoftmaxAxis), Data1.shape) + 1]

\* C16: the divisor of the final division of the masked softmax is the output
\* of a selection that gives 1 where the masked sum is 0 and the masked sum
\* elsewhere; no element of it is 0, a row of valid length 0 included.
C16_ZeroGuard ==
    MaskedSoftmax =>
        /\ Final.op = "Div"
        /\ Produced(Final.inputs[2])
        /\ Producer(Final.inputs[2]).op = "Where"
        /\ LET divisor == Env[Final.inputs[2]]
               masked_sum == ReduceSum(Env[Final.inputs[1]], last.node.attrs.axis)
           IN  /\ divisor # ErrT
               /\ divisor.shape = masked_sum.shape
               /\ \A k \in DOMAIN divisor.val :
                     /\ divisor.val[k] = IF masked_sum.val[k] = R(0) THEN R(1)
                                         ELSE masked_sum.val[k]
                     /\ divisor.val[k] # R(0)
               /\ \A k \in DOMAIN Env[last.node.name].val : IsFinite(Env[last.node.name].val[k])

\* a row of valid length 0 has been run
C16_Witness ==
    /\ MaskedSoftmax
    /\ R(0) \in Range(Data1.val)
    /\ R(1) \in Range(Env[Final.inputs[2]].val)
    /\ Env[last.node.name].shape = Data0.shape

\* C17: the output of the masked softmax is 0 at every position along the axis
\* from the valid length of its row on, for negative as for non-negative axis;
\* the mask compares the index range 0..dim-1 laid along the resolved axis with
\* the lengths reshaped to the data shape with 1 at the axis.
C17_Masking ==
    MaskedSoftmax =>
        LET out == Env[last.node.name]
            dim == Data0.shape[SoftmaxAxis]
        IN  /\ out # ErrT
            /\ out.shape = Data0.shape
            /\ \A k \in DOMAIN out.val :
                  LET m == Unflat(k - 1, Data0.shape)
                  IN  VLess(LengthAt(m), R(m[SoftmaxAxis] + 1)) => out.val[k] = R(0)
            /\ \E it \in Range(NodeItems(last.items)) :
                  /\ it.op = "Less"
                  /\ Env[it.inputs[1]] =
                        Tn([i \in DOMAIN Data0.shape |-> IF i = SoftmaxAxis THEN dim ELSE 1],
                           [j \in 1..dim |-> R(j - 1)])
                  /\ Env[it.inputs[2]] =
                        Tn([Data0.shape EXCEPT ![SoftmaxAxis] = 1], Data1.val)
                  /\ Produced(Final.inputs[1])
                  /\ Producer(Final.inputs[1]).op = "Mul"

\* the 2x3 input with lengths [1, 3] along axis -1: the first row keeps one
\* position, the second all three
C17_Witness ==
    /\ MaskedSoftmax
    /\ last.node.attrs.axis = -1
    /\ Data0.shape = <<2, 3>>
    /\ Data1.val = T(<<1, 3>>)
    /\ Env[last.node.name].val[1] = R(1)
    /\ Env[last.node.name].val[2] = R(0)
    /\ Env[last.node.name].val[3] = R(0)
    /\ R(0) \notin {Env[last.node.name].val[k] : k \in 4..6}

\* s back to front
Backwards(s) == Listed([i \in DOMAIN s |-> s[Len(s) + 1 - i]], Len(s))

Undefined == <<-1>>

\* the output shape of the source Reshape for target entries 0, -1 and
\* positive, front to back: 0 copies the input dimension at its place, -1 is
\* inferred from the rest; Undefined where the source operator rejects
SourceInfer(dshape, shape) ==
    LET tmp == Listed([i \in DOMAIN shape |->
                          IF shape[i] = 0 THEN (IF i <= Len(dshape) THEN dshape[i] ELSE 0)
                          ELSE IF shape[i] = -1 THEN 1 ELSE shape[i]], Len(shape))
        inf == {i \in DOMAIN shape : shape[i] = -1}
        oshape == Listed([i \in DOMAIN shape |->
                             IF i \in inf THEN Prod(dshape) \div Prod(tmp) ELSE tmp[i]],
                         Len(shape))
    IN  IF \/ \E i \in DOMAIN shape : shape[i] = 0 /\ i > Len(dshape)
           \/ Cardinality(inf) > 1
           \/ Prod(tmp) = 0
        THEN Undefined
        ELSE IF Prod(oshape) # Prod(dshape) THEN Undefined ELSE oshape

\* with reverse the source operator infers from the back
SourceReshape(dshape, shape, reverse) ==
    IF reverse = "False" THEN SourceInfer(dshape, shape)
    ELSE IF SourceInfer(Backwards(dshape), Backwards(shape)) = Undefined THEN Undefined
    ELSE Backwards(SourceInfer(Backwards(dshape), Backwards(shape)))

\* the output shape of the source reshape_like: dimensions begin..end of lhs
\* are replaced by dimensions begin..end of rhs
SourceReshapeLike(lshape, rshape, attrs) ==
    LET At(v, n, default) == IF v = NoneVal THEN default ELSE IF v < 0 THEN v + n ELSE v
        lhs_begin == At(attrs.lhs_begin, Len(lshape), 0)
        lhs_end == At(attrs.lhs_end, Len(lshape), Len(lshape))
        rhs_begin == At(attrs.rhs_begin, Len(rshape), 0)
        rhs_end == At(attrs.rhs_end, Len(rshape), Len(rshape))
        oshape == SubSeq(lshape, 1, lhs_begin) \o SubSeq(rshape, rhs_begin + 1, rhs_end)
                      \o SubSeq(lshape, lhs_end + 1, Len(lshape))
    IN  IF \/ lhs_begin < 0 \/ lhs_begin > lhs_end \/ lhs_end > Len(lshape)
           \/ rhs_begin < 0 \/ rhs_begin > rhs_end \/ rhs_end > Len(rshape)
        THEN Undefined
        ELSE IF Prod(oshape) # Prod(lshape) THEN Undefined ELSE oshape

\* the shape that the source operator of the last rule call gives
SourceShape ==
    IF last.node.op = "Reshape"
    THEN SourceReshape(Data0.shape, convert_string_to_list(last.node.attrs.shape),
                       last.node.attrs.reverse)
    ELSE SourceReshapeLike(Data0.shape, Data1.shape, last.node.attrs)

\* Reshape with reverse set, or reshape_like, was run on an input for which
\* the source operator is defined
ComputedReshape ==
    /\ fetched.run
    /\ \/ last.node.op = "Reshape" /\ last.node.attrs.reverse = "True"
       \/ last.node.op = "reshape_like"
    /\ SourceShape # Undefined

\* the shape tensor fed to the final Reshape, as Reshape reads it on its input
FedShape == Resolved(Env[Final.inputs[1]].shape, Ints(Env[Final.inputs[2]]))

\* C18: for Reshape with reverse and for reshape_like, the shape tensor that
\* the emitted nodes compute and feed to the final Reshape has a product of
\* dimensions equal to the product of the input's dimensions, wherever the
\* source operator is defined; it is the shape the source operator gives.
C18_ShapeLaw ==
    ComputedReshape =>
        /\ Final.op = "Reshape"
        /\ Final.inputs[1] = last.inputs[1]
        /\ Produced(Final.inputs[2])
        /\ Env[Final.inputs[2]] # ErrT
        /\ FedShape # Undefined
        /\ Prod(FedShape) = Prod(Data0.shape)
        /\ FedShape = SourceShape
        /\ Env[last.node.name] = Tn(SourceShape, Data0.val)

\* a 2x3x2 input and target (-1, 0) with reverse: the target is shorter than
\* the input, 0 copies the last dimension and -1 is inferred as 6
C18_Witness ==
    /\ ComputedReshape
    /\ last.node.op = "Reshape"
    /\ Data0.shape = <<2, 3, 2>>
    /\ convert_string_to_list(last.node.attrs.shape) = <<-1, 0>>
    /\ Env[Final.inputs[2]].val = T(<<-1, 2>>)
    /\ FedShape = <<6, 2>>

-----------------------------------------------------------------------------
(* Properties of the direct renames and of Pooling *)

\* C19: a rule built on create_basic_op_node returns exactly one node, of the
\* target operator of the table; its inputs are the resolved names of the
\* source inputs, as many and in the same order; its only output and its name
\* are the name of the source node; no attribute of the source node reaches
\* it; the initializer list is as before.
C19_DirectRename ==
    (Invoked /\ last.node.op \in DOMAIN BasicOps) =>
        /\ last.err = ""
        /\ Len(last.items) = 1
        /\ last.items[1].kind = "node"
        /\ last.items[1].op = BasicOps[last.node.op]
        /\ Len(last.items[1].inputs) = Len(last.node.inputs)
        /\ \A i \in DOMAIN last.node.inputs :
              last.items[1].inputs[i] = proc_nodes[index_lookup[last.node.inputs[i][1]]].name
        /\ last.items[1].outputs = <<last.node.name>>
        /\ last.items[1].name = last.node.name
        /\ last.items[1].attrs = NoAttrs
        /\ Len(initializer) = last.init_before
        /\ last.node_after = last.node

\* elemwise_sub of the second graph input and the first, with an attribute
C19_Witness ==
    /\ Invoked
    /\ last.node.op = "elemwise_sub"
    /\ last.node.attrs # NoAttrs
    /\ last.items[1].op = "Sub"
    /\ last.items[1].inputs = <<<<"n", "1">>, <<"n", "0">>>>

\* the last rule call was Pooling with pool_type "lp"
LpPooling ==
    /\ Invoked
    /\ last.node.op = "Pooling"
    /\ Get(last.node.attrs, "pool_type", "max") = "lp"

\* the node carries no p value: no p_value attribute, or one that reads None
NoPValue == Get(last.node.attrs, "p_value", NoneChars) = NoneChars

C21_AdaptiveAvgPoolingOnlyOne ==
    (Invoked /\ last.node.op = "_contrib_AdaptiveAvgPooling2D") =>
        LET output_size ==
                convert_string_to_list(Get(last.node.attrs, "output_size", <<"1">>))
        IN  IF \E i \in DOMAIN output_size : output_size[i] # 1
            THEN last.err # "" /\ last.items = <<>> /\ Len(proc_nodes) = last.nodes_before
            ELSE /\ last.err = ""
                 /\ Len(last.items) = 1
                 /\ last.items[1].op = "GlobalAveragePool"

\* the begin, end and step lists of the last slice node as written
SliceAttr(key) == convert_string_to_list(Get(last.node.attrs, key, <<"[", "]">>))

\* the step of axis i as written: none when the list is empty or (None,)
StepGiven(i) ==
    IF Len(SliceAttr("step")) = 0 \/ SliceAttr("step") = <<NoneVal>> THEN NoneVal
    ELSE SliceAttr("step")[i]

\* the item of the last rule call that has name nm
Item(nm) == CHOOSE it \in Range(last.items) : it.name = nm

\* C22: slice with a negative step raises and leaves the initializer list as it
\* was; otherwise the starts, ends and steps initializers are as long as begin,
\* an absent or None step is 1, a None begin 0, a None end 2^63-1, and the axes
\* input of the Slice node is the range 0..len(starts)-1.
C22_SliceSteps ==
    (Invoked /\ last.node.op = "slice") =>
        LET name == last.node.name
            begin == SliceAttr("begin")
            end == SliceAttr("end")
            step == SliceAttr("step")
            n == Len(begin)
        IN  IF \E i \in DOMAIN step : step[i] # NoneVal /\ step[i] < 0
            THEN /\ last.err # ""
                 /\ Len(initializer) = last.init_before
                 /\ last.items = <<>>
            ELSE (Len(end) = n /\ (Len(step) = n \/ Len(step) = 0 \/ step = <<NoneVal>>)) =>
                 /\ last.err = ""
                 /\ Len(Item(name \o <<"_starts">>).val) = n
                 /\ Len(Item(name \o <<"_ends">>).val) = n
                 /\ Len(Item(name \o <<"_steps">>).val) = n
                 /\ \A i \in 1..n :
                       /\ Item(name \o <<"_steps">>).val[i] =
                             IF StepGiven(i) = NoneVal THEN R(1) ELSE R(StepGiven(i))
                       /\ Item(name \o <<"_starts">>).val[i] =
                             IF begin[i] = NoneVal THEN R(0) ELSE R(begin[i])
                       /\ Item(name \o <<"_ends">>).val[i] =
                             IF end[i] = NoneVal THEN R(MaxInt64) ELSE R(end[i])
                 /\ Last(last.items).op = "Slice"
                 /\ Last(last.items).outputs = <<name>>
                 /\ Len(Last(last.items).inputs) = 5
                 /\ \E rg \in Range(NodeItems(last.items)) :
                       /\ rg.op = "Range"
                       /\ rg.outputs = <<Last(last.items).inputs[4]>>
                       /\ OnnxRange(Tn(<<>>, Item(rg.inputs[1]).val),
                                    Tn(<<>>, Item(rg.inputs[2]).val),
                                    Tn(<<>>, Item(rg.inputs[3]).val))
                            = Tn(<<n>>, [k \in 1..n |-> R(k - 1)])

\* a slice of two axes with begin (None, 1), end (2, None) and step (None, 2)
C22_Witness ==
    /\ Invoked
    /\ last.node.op = "slice"
    /\ last.err = ""
    /\ Item(last.node.name \o <<"_starts">>).val = T(<<0, 1>>)
    /\ Item(last.node.name \o <<"_ends">>).val = T(<<2, MaxInt64>>)
    /\ Item(last.node.name \o <<"_steps">>).val = T(<<1, 2>>)

\* C23: each of create_const_scalar_node, create_const_node and create_tensor
\* stores a float16 value as its 16-bit pattern read as an unsigned integer,
\* not as the number.
C23_HalfPrecisionBits ==
    (attrs_in \in ConstCalls /\ attrs_in.dtype = "float16" /\ initializer # <<>>) =>
        /\ Len(initializer[1].val) = Len(attrs_in.value)
        /\ \A i \in DOMAIN attrs_in.value :
              initializer[1].val[i] = R(Float16Bits(attrs_in.value[i]))

\* the Transpose nodes and the MatMul node of a product of two operands: one
\* Transpose for each flagged operand, then MatMul on the operands in order
Product(name, a, b, trans_a, trans_b) ==
    (IF trans_a = 1 THEN << create_helper_trans_node(name \o <<"_a">>, a) >> ELSE <<>>)
    \o (IF trans_b = 1 THEN << create_helper_trans_node(name \o <<"_b">>, b) >> ELSE <<>>)
    \o << N("MatMul", << IF trans_a = 1 THEN name \o <<"_a">> ELSE a,
                         IF trans_b = 1 THEN name \o <<"_b">> ELSE b >>, <<name>>, name, NoAttrs) >>

\* C24: dot of two inputs returns one Transpose node for each operand whose
\* flag transpose_a, transpose_b is true, followed by a single MatMul node on
\* the operands in order, transposed or not, whose output is the node's name.
C24_DotTransposes ==
    (Invoked /\ last.node.op = "dot" /\ Len(last.node.inputs) = 2) =>
        /\ last.err = ""
        /\ last.items =
             Product(last.node.name, last.inputs[1], last.inputs[2],
                     get_boolean_attribute_value(last.node.attrs, "transpose_a"),
                     get_boolean_attribute_value(last.node.attrs, "transpose_b"))

\* C25: slice_like returns, for axes absent, "None" or a list of axes, a node
\* list that ends in a Slice node whose output is the node's name and that
\* slices the first input from zero starts to the shape of the second input.
C25_SliceLikeShapeBased ==
    (Invoked /\ last.node.op = "slice_like") =>
        /\ last.err = ""
        /\ last.items # <<>>
        /\ LET slice == Last(last.items)
           IN  /\ slice.op = "Slice"
               /\ slice.outputs = <<last.node.name>>
               /\ slice.inputs[1] = last.inputs[1]
               /\ \E starts \in Range(last.items), shape \in Range(last.items) :
                     /\ starts.op = "ConstantOfShape"
                     /\ starts.attrs.value.val = <<R(0)>>
                     /\ starts.outputs = <<slice.inputs[2]>>
                     /\ shape.op = "Shape"
                     /\ shape.inputs = <<last.inputs[2]>>
                     /\ shape.outputs = <<slice.inputs[3]>>

\* C26: non-global max or avg Pooling never aborts on pooling_convention: at
\* opset 10 and later the one node has ceil_mode 1 for "full" and 0 for the
\* default "valid"; before opset 10 the rule still returns exactly one pooling
\* node, and that node has no ceil_mode attribute.
C26_CeilModeGated ==
    (/\ Invoked
     /\ last.node.op = "Pooling"
     /\ get_boolean_attribute_value(last.node.attrs, "global_pool") = 0
     /\ Get(last.node.attrs, "pool_type", "max") \in {"max", "avg"}
     /\ Has(last.node.attrs, "kernel")) =>
        /\ last.err = ""
        /\ status = "ok"
        /\ Len(last.items) = 1
        /\ last.items[1].op =
              IF Get(last.node.attrs, "pool_type", "max") = "max" THEN "MaxPool"
              ELSE "AveragePool"
        /\ last.items[1].outputs = <<last.node.name>>
        /\ IF opset_version >= 10
           THEN /\ "ceil_mode" \in DOMAIN last.items[1].attrs
                /\ last.items[1].attrs.ceil_mode =
                      IF Get(last.node.attrs, "pooling_convention", "valid") = "full"
                      THEN 1 ELSE 0
           ELSE "ceil_mode" \notin DOMAIN last.items[1].attrs

\* average pooling with pooling_convention "full" at opset 9: one node, no
\* ceil_mode
C26_Witness ==
    /\ Invoked
    /\ last.node.op = "Pooling"
    /\ opset_version = 9
    /\ Get(last.node.attrs, "pooling_convention", "valid") = "full"
    /\ last.err = ""
    /\ last.items[1].op = "AveragePool"
    /\ DOMAIN last.items[1].attrs = {"kernel_shape", "pads", "strides"}

\* the Transpose nodes of the last rule call
Transposes == SelectSeq(last.items, LAMBDA it : it.kind = "node" /\ it.op = "Transpose")

\* operand number k of the final node is the output of a Transpose of source
\* input k when flagged, the resolved source input itself when not
Operand(k, flagged) ==
    IF flagged = 1
    THEN \E t \in Range(Transposes) :
             /\ t.inputs = <<last.inputs[k]>>
             /\ t.outputs = <<Last(last.items).inputs[k]>>
    ELSE Last(last.items).inputs[k] = last.inputs[k]

\* C27: _linalg_gemm2 returns, for every transpose_a, transpose_b and alpha, a
\* Transpose node for operand a iff transpose_a and for operand b iff
\* transpose_b, and a final MatMul that reads the Transpose output of each
\* transposed operand and the resolved input of each other operand.
C27_Gemm2Transposes ==
    (Invoked /\ last.node.op = "_linalg_gemm2") =>
        LET trans_a == get_boolean_attribute_value(last.node.attrs, "transpose_a")
            trans_b == get_boolean_attribute_value(last.node.attrs, "transpose_b")
        IN  /\ last.err = ""
            /\ Len(Transposes) = trans_a + trans_b
            /\ Len(last.items) = Len(Transposes) + 1
            /\ Last(last.items).op = "MatMul"
            /\ Last(last.items).outputs = <<last.node.name>>
            /\ Len(Last(last.items).inputs) = 2
            /\ Operand(1, trans_a)
            /\ Operand(2, trans_b)

\* the operator names of the nodes of the last rule call, in order
NodeOps == [i \in DOMAIN NodeItems(last.items) |-> NodeItems(last.items)[i].op]

\* C28: LeakyReLU with act_type "elu" gives a single Elu node and with "leaky"
\* (the default) a single LeakyRelu node, each with alpha equal to slope
\* (default 0.25) and no initializer; "prelu" and "selu" give a single PRelu
\* or Selu node without alpha; only "gelu" gives the Div, Erf, Add, Mul, Mul
\* nodes with their three scalar constants.
C28_LeakyReLUDispatch ==
    (Invoked /\ last.node.op = "LeakyReLU") =>
        LET act_type == Get(last.node.attrs, "act_type", <<"l", "e", "a", "k", "y">>)
            single(op) == /\ last.err = ""
                          /\ Len(last.items) = 1
                          /\ last.items[1].kind = "node"
                          /\ last.items[1].op = op
                          /\ last.items[1].outputs = <<last.node.name>>
                          /\ InitNew = <<>>
            alpha == last.items[1].attrs = [alpha |-> Get(last.node.attrs, "slope", <<1, 4>>)]
        IN  /\ act_type = <<"e", "l", "u">> => single("Elu") /\ alpha
            /\ act_type = <<"l", "e", "a", "k", "y">> => single("LeakyRelu") /\ alpha
            /\ act_type = <<"p", "r", "e", "l", "u">> => single("PRelu") /\ last.items[1].attrs = NoAttrs
            /\ act_type = <<"s", "e", "l", "u">> => single("Selu") /\ last.items[1].attrs = NoAttrs
            /\ act_type = <<"g", "e", "l", "u">> =>
                  /\ last.err = ""
                  /\ NodeOps = <<"Div", "Erf", "Add", "Mul", "Mul">>
                  /\ Len(InitNew) = 3
            /\ act_type # <<"g", "e", "l", "u">> => NodeOps # <<"Div", "Erf", "Add", "Mul", "Mul">>

\* the item that the lookup table gives for source node p
Looked(p) == proc_nodes[index_lookup[p]]

\* input i of the last invocation refers to an output that its producer has
RefersToOutput(i) ==
    LET ip == last.node.inputs[i]
    IN  /\ Looked(ip[1]).kind = "node"
        /\ ip[2] + 1 \in DOMAIN Looked(ip[1]).outputs

\* C29: every input name handed to the consuming rule is the name of the
\* output, of the producer, that the input reference selects by its index
C29_OutputIndexHonoured ==
    Invoked =>
        \A i \in DOMAIN last.node.inputs :
            RefersToOutput(i) =>
                last.inputs[i] =
                    Looked(last.node.inputs[i][1]).outputs[last.node.inputs[i][2] + 1]

RECURSIVE SumOf(_)
SumOf(s) == IF s = <<>> THEN 0 ELSE Head(s) + SumOf(Tail(s))

\* the last invocation ran SliceChannel's rule with these attributes
SliceChannelRan(squeeze_axis, many) ==
    /\ Invoked
    /\ last.node.op = "SliceChannel"
    /\ last.node.attrs.squeeze_axis = squeeze_axis
    /\ (last.node.attrs.num_outputs > 1) = many

\* the length of the input shape along the axis that is split
AxisLength == PyAt(last.in_shape[1], last.node.attrs.axis)

\* C30: without squeeze_axis and with more than one output the Split node has
\* num_outputs outputs and num_outputs equal split sizes that sum to the
\* length of the split axis; squeeze_axis with several outputs, and one
\* output without squeeze_axis, raise and emit nothing
C30_SplitCoversAxis ==
    /\ SliceChannelRan(0, TRUE) =>
          /\ last.err = ""
          /\ Len(last.items) = 1
          /\ last.items[1].kind = "node"
          /\ last.items[1].op = "Split"
          /\ Len(last.items[1].outputs) = last.node.attrs.num_outputs
          /\ Len(last.items[1].attrs.split) = last.node.attrs.num_outputs
          /\ \A i \in DOMAIN last.items[1].attrs.split :
                last.items[1].attrs.split[i] = last.items[1].attrs.split[1]
          /\ SumOf(last.items[1].attrs.split) = AxisLength
    /\ (SliceChannelRan(1, TRUE) \/ SliceChannelRan(0, FALSE)) =>
          /\ last.err # ""
          /\ last.items = <<>>
          /\ InitNew = <<>>

-----------------------------------------------------------------------------
(* Properties of parse_helper *)

\* s is, in its entirety, a parenthesized comma separated sequence of integers
WellFormedDims(s) ==
    /\ Len(s) >= 2
    /\ s[1] = "(" /\ s[Len(s)] = ")"
    /\ \/ Len(s) = 2
       \/ \A k \in DOMAIN EvalPieces(s) : IsDecimal(Strip(EvalPieces(s)[k]))

\* C7: parse_helper raises the malformed error for every present value that is
\* not a parenthesized integer sequence, and returns the default only for an
\* absent key.
C7_MalformedRejected ==
    (parsed # NotParsed /\ Has(attrs_in, "stride")) =>
        /\ ~WellFormedDims(attrs_in["stride"]) => parsed.kind = "AttributeError"
        /\ parsed.kind # "alt_value"

====
